---------------------------- MODULE Spec2Model ----------------------------
(***************************************************************************)
(* A model of differential-dataflow's fueled Spine                         *)
(* (src/trace/implementations/spine_fueled_neu.rs) over the scalar lattice *)
(* of src/lattice.rs.  Every public Spine method is one action; the        *)
(* private helpers are operators on a record `s` holding the Spine's       *)
(* fields, translated statement by statement.  A Rust panic is recorded    *)
(* in the field `panic` and ends the run.                                  *)
(***************************************************************************)
EXTENDS Integers, Sequences, FiniteSets, TLC

VARIABLES
    merging,            \* Vec<MergeState>: the layers, index 0 first
    pending,            \* Vec<B>: batches not yet admitted to the layers
    upper,              \* Vec<T>: upper frontier of the last inserted batch
    advance_frontier,   \* Vec<T>: compaction frontier
    through_frontier,   \* Vec<T>: admission frontier
    effort,             \* usize: the effort multiplier fixed at construction
    panic,              \* NoPanic, or the message of the panic that ended the run
    admits,             \* the admissions made by the last mutating call (observer)
    inserted,           \* the updates of every batch insert accepted (observer)
    cursor,             \* result of the last cursor_through, or NoCursor
    advanced,           \* the last call on a lattice of times, or NoCall
    validator,          \* the validate operator over the Spine, or NoOperator
    triangles,          \* the last run of the triangle delta query, or NoQuery
    new_variable,       \* the state of a recursive Variable, or NoVariable
    cogroup             \* the state of a cogroup operator, or NoCoGroup

vars == <<merging, pending, upper, advance_frontier, through_frontier,
          effort, panic, admits, inserted, cursor, advanced, validator,
          triangles, new_variable, cogroup>>

----------------------------------------------------------------------------
(* Bounds of the model.                                                    *)

\* Times are 0 .. MaxT.
MaxT == 3
\* A user batch spans at most MaxSpan time units.
MaxSpan == 2
\* exert is called with an effort in 1 .. MaxEffort.
MaxEffort == 2
\* with_effort is called with a multiplier in 0 .. MaxMultiplier.
MaxMultiplier == 1

\* The scenario of single-record batches inserts up to 2^MaxN of them.
MaxN == 3
\* Lattice::advance_by is called with frontiers of at most MaxFrontier times.
MaxFrontier == 2
\* The collections whose times are advanced hold at most MaxUpdates updates.
MaxUpdates == 2
\* The validate operator is sent at most MaxExtensions extensions.
MaxExtensions == 2
\* The graphs of the triangle query have the nodes 1 .. MaxNodes.
MaxNodes == 3
\* At most MaxVariables recursive Variables are created.
MaxVariables == 3
\* The scenario of fuel inserts at most MaxFuelBatches batches, into a Spine
\* built by with_effort with a multiplier in 0 .. MaxFuelMultiplier.
MaxFuelBatches == 5
MaxFuelMultiplier == 2

Time == 0 .. MaxT
Diffs == {1, -1}
\* The record counts of the batches of the second input family (FillBatches).
FillSizes == {1, 4}

----------------------------------------------------------------------------
(* The lattice of times: integer scalars and their Products                *)
(* (src/lattice.rs).                                                       *)

\* <usize as Lattice>::minimum()
minimum == 0
\* <usize as Lattice>::maximum(), the top of the bounded time domain
maximum == MaxT + 1

less_equal(t1, t2) == t1 <= t2
join(a, b) == IF a >= b THEN a ELSE b
meet(a, b) == IF a <= b THEN a ELSE b

RECURSIVE advance_fold_joined(_, _, _, _)
\* The loop of advance_by with `result.join` in place of `result.meet`.
advance_fold_joined(t, frontier, i, result) ==
    IF i > Len(frontier) THEN result
    ELSE advance_fold_joined(t, frontier, i + 1, join(result, join(t, frontier[i])))

RECURSIVE advance_fold(_, _, _, _)
advance_fold(t, frontier, i, result) ==
    IF i > Len(frontier) THEN result
    ELSE advance_fold(t, frontier, i + 1, meet(result, join(t, frontier[i])))

\* Lattice::advance_by leaving the time where it is.
lattice_advance_by_unmoved(t, frontier) ==
    IF Len(frontier) > 0 THEN t ELSE maximum

\* Lattice::advance_by
lattice_advance_by(t, frontier) ==
    IF Len(frontier) > 0
    THEN advance_fold(t, frontier, 2, join(t, frontier[1]))
    ELSE maximum

\* Product<T1, T2> over two integer scalars.
Product(outer, inner) == [outer |-> outer, inner |-> inner]

\* <Product as Lattice>::maximum() with T2::minimum() for the inner coordinate.
product_maximum_outer == Product(maximum, minimum)

\* <Product as Lattice>::minimum() and maximum()
product_minimum == Product(minimum, minimum)
product_maximum == Product(maximum, maximum)

\* The partial order of Product: both coordinates in order.
product_less_equal(t1, t2) ==
    less_equal(t1.outer, t2.outer) /\ less_equal(t1.inner, t2.inner)

\* <Product as Lattice>::join with the coordinates crossed.
product_join_crossed(a, b) ==
    [outer |-> join(a.inner, b.inner), inner |-> join(a.outer, b.outer)]

\* <Product as Lattice>::join
product_join(a, b) ==
    [outer |-> join(a.outer, b.outer), inner |-> join(a.inner, b.inner)]

\* <Product as Lattice>::meet
product_meet(a, b) ==
    [outer |-> meet(a.outer, b.outer), inner |-> meet(a.inner, b.inner)]

RECURSIVE product_advance_fold(_, _, _, _)
product_advance_fold(t, frontier, i, result) ==
    IF i > Len(frontier) THEN result
    ELSE product_advance_fold(t, frontier, i + 1,
                              product_meet(result, product_join(t, frontier[i])))

\* Lattice::advance_by looking at the first time of the frontier only.
product_advance_by_first_only(t, frontier) ==
    IF Len(frontier) > 0 THEN product_join(t, frontier[1]) ELSE product_maximum

\* Lattice::advance_by, for Product times
product_advance_by(t, frontier) ==
    IF Len(frontier) > 0
    THEN product_advance_fold(t, frontier, 2, product_join(t, frontier[1]))
    ELSE product_maximum

\* Antichains of a totally ordered time have at most one element.
Frontiers == {<<>>} \cup {<<t>> : t \in Time}

\* The test `f1.iter().all(|t1| f2.iter().any(|t2| t2.less_equal(t1)))`.
dominates(f1, f2) ==
    \A i \in 1 .. Len(f1) : \E j \in 1 .. Len(f2) : less_equal(f2[j], f1[i])

----------------------------------------------------------------------------
(* Batches.  An update is <<key, val, time, diff>>.                        *)

None == [some |-> FALSE]
Some(lo, hi, upd) == [some |-> TRUE, lower |-> lo, upper |-> hi, updates |-> upd]

batch_len(b) == Cardinality(b.updates)
is_empty(b) == b.updates = {}

RECURSIVE SumDiffs(_)
SumDiffs(S) ==
    IF S = {} THEN 0
    ELSE LET u == CHOOSE x \in S : TRUE IN u[4] + SumDiffs(S \ {u})

\* The diffs of `updates` for (k, v) whose time, advanced by `frontier`, is t.
AdvancedSum(updates, k, v, t, frontier) ==
    SumDiffs({u \in updates :
                u[1] = k /\ u[2] = v /\ lattice_advance_by(u[3], frontier) = t})

\* Merger::done: the sorted merge of two batches, times advanced by the
\* merge's frontier, equal (key, val, time) coalesced, zero diffs dropped.
merger_done(batch1, batch2, frontier) ==
    LET all == batch1.updates \cup batch2.updates
        kvt == {<<u[1], u[2], lattice_advance_by(u[3], frontier)>> : u \in all}
        sum(x) == AdvancedSum(batch1.updates, x[1], x[2], x[3], frontier)
                  + AdvancedSum(batch2.updates, x[1], x[2], x[3], frontier)
    IN  Some(batch1.lower, batch2.upper,
             {<<x[1], x[2], x[3], sum(x)>> : x \in {y \in kvt : sum(y) # 0}})

\* Merger::work: touch up to `fuel` of the records not yet merged and debit
\* `fuel` by the number touched.  `done` counts the records touched so far.
merger_work(batch1, batch2, done, fuel) ==
    LET remaining == batch_len(batch1) + batch_len(batch2) - done
        touched == IF fuel <= 0 THEN 0
                   ELSE IF fuel < remaining THEN fuel ELSE remaining
    IN  [done |-> done + touched, fuel |-> fuel - touched]


----------------------------------------------------------------------------
(* MergeState and MergeVariant.                                            *)

Vacant == [tag |-> "Vacant"]
Single(batch) == [tag |-> "Single", batch |-> batch]
InProgress(batch1, batch2, frontier, done) ==
    [tag |-> "Double", variant |-> "InProgress", batch1 |-> batch1,
     batch2 |-> batch2, frontier |-> frontier, done |-> done]
Complete(batch) == [tag |-> "Double", variant |-> "Complete", batch |-> batch]
\* The outcome of begin_merge when its assertion fails.
Poisoned == [tag |-> "Poisoned"]

NoPanic == "none"
InsertIntoDouble == "Attempted to insert batch into incomplete merge!"
FailedToComplete == "Failed to complete a merge!"
BeginMergeAssert == "assertion failed: batch1.upper() == batch2.lower()"
InsertEmptyAssert == "assertion failed: batch.lower() != batch.upper()"
InsertLowerAssert == "assertion failed: batch.lower() == self.upper"
CursorClosedAssert == "assertion failed: self.advance_frontier.len() > 0"
CursorThroughAssert == "assertion failed: upper >= self.through_frontier"
CursorStraddles == "cursor_through: upper straddles batch"

\* isize::max_value(), at the width of TLC's integers
IsizeMax == 2147483647

RECURSIVE Pow2(_)
Pow2(n) == IF n = 0 THEN 1 ELSE 2 * Pow2(n - 1)

RECURSIVE LogFrom(_, _)
LogFrom(n, k) == IF Pow2(k) >= n THEN k ELSE LogFrom(n, k + 1)

\* The level of n + 1 records, taken for that of n.
level_of_successor(n) == LogFrom(n + 1, 0)

\* The greatest k with 2^k <= n (0 for n = 0), in place of the least k with
\* 2^k >= n.
level_of_floor(n) ==
    IF n = 0 THEN 0 ELSE IF Pow2(LogFrom(n, 0)) = n THEN LogFrom(n, 0) ELSE LogFrom(n, 0) - 1

\* n.next_power_of_two().trailing_zeros(): the least k with 2^k >= n.
level_of(n) == LogFrom(n, 0)

\* MergeState::len
state_len(m) ==
    CASE m.tag = "Single" /\ m.batch.some -> batch_len(m.batch)
      [] m.tag = "Double" /\ m.variant = "InProgress" ->
            batch_len(m.batch1) + batch_len(m.batch2)
      [] m.tag = "Double" /\ m.variant = "Complete" /\ m.batch.some ->
            batch_len(m.batch)
      [] OTHER -> 0

is_vacant(m) == m.tag = "Vacant"
is_single(m) == m.tag = "Single"
is_double(m) == m.tag = "Double"
is_complete(m) == m.tag = "Double" /\ m.variant = "Complete"

\* MergeVariant::work completing the merge without the frontier recorded at
\* begin_merge.
variant_work_unadvanced(m, fuel) ==
    IF m.variant = "InProgress"
    THEN LET w == merger_work(m.batch1, m.batch2, m.done, fuel)
         IN  IF w.fuel > 0
             THEN [state |-> Complete(merger_done(m.batch1, m.batch2, <<minimum>>)),
                   fuel |-> w.fuel]
             ELSE [state |-> InProgress(m.batch1, m.batch2, m.frontier, w.done),
                   fuel |-> w.fuel]
    ELSE [state |-> m, fuel |-> fuel]

\* MergeVariant::work completing the merge as soon as the inputs are
\* exhausted, with `*fuel >= 0`.
variant_work_at_exhaustion(m, fuel) ==
    IF m.variant = "InProgress"
    THEN LET w == merger_work(m.batch1, m.batch2, m.done, fuel)
         IN  IF w.fuel >= 0 /\ w.done = batch_len(m.batch1) + batch_len(m.batch2)
             THEN [state |-> Complete(merger_done(m.batch1, m.batch2, m.frontier)),
                   fuel |-> w.fuel]
             ELSE [state |-> InProgress(m.batch1, m.batch2, m.frontier, w.done),
                   fuel |-> w.fuel]
    ELSE [state |-> m, fuel |-> fuel]

\* MergeVariant::work, on a Double slot: the slot and the fuel afterwards.
variant_work(m, fuel) ==
    IF m.variant = "InProgress"
    THEN LET w == merger_work(m.batch1, m.batch2, m.done, fuel)
         IN  IF w.fuel > 0
             THEN [state |-> Complete(merger_done(m.batch1, m.batch2, m.frontier)),
                   fuel |-> w.fuel]
             ELSE [state |-> InProgress(m.batch1, m.batch2, m.frontier, w.done),
                   fuel |-> w.fuel]
    ELSE [state |-> m, fuel |-> fuel]

\* MergeState::work
state_work(m, fuel) ==
    IF is_double(m) THEN variant_work(m, fuel) ELSE [state |-> m, fuel |-> fuel]

\* MergeVariant::complete: the Option<batch> extracted, or a panic.
variant_complete(m) ==
    LET w == variant_work(m, IsizeMax)
    IN  IF w.state.variant = "Complete"
        THEN [panic |-> NoPanic, batch |-> w.state.batch]
        ELSE [panic |-> FailedToComplete, batch |-> None]

\* MergeState::complete (the slot itself is left Vacant by the caller).
state_complete(m) ==
    CASE m.tag = "Vacant" -> [panic |-> NoPanic, batch |-> None]
      [] m.tag = "Single" -> [panic |-> NoPanic, batch |-> m.batch]
      [] m.tag = "Double" -> variant_complete(m)

\* begin_merge keeping the second batch in every arm with an absent batch.
begin_merge_second(batch1, batch2, frontier) ==
    CASE batch1.some /\ batch2.some ->
            IF batch1.upper = batch2.lower
            THEN InProgress(batch1, batch2, frontier, 0)
            ELSE Poisoned
      [] OTHER -> Complete(batch2)

\* MergeState::begin_merge: the new slot, or Poisoned when the assertion fails.
begin_merge(batch1, batch2, frontier) ==
    CASE batch1.some /\ batch2.some ->
            IF batch1.upper = batch2.lower
            THEN InProgress(batch1, batch2, frontier, 0)
            ELSE Poisoned
      [] ~batch1.some /\ batch2.some -> Complete(batch2)
      [] batch1.some /\ ~batch2.some -> Complete(batch1)
      [] OTHER -> Complete(None)


----------------------------------------------------------------------------
(* The Spine's private methods, on a record s of its fields.               *)

panicked(s) == s.panic # NoPanic

\* `while self.merging.len() <= index { self.merging.push(Vacant) }`
grow(layers, index) ==
    IF Len(layers) <= index
    THEN layers \o [i \in 1 .. (index + 1 - Len(layers)) |-> Vacant]
    ELSE layers

\* Vec::remove(index), index counted from 0
remove(layers, index) ==
    [i \in 1 .. (Len(layers) - 1) |->
        IF i <= index THEN layers[i] ELSE layers[i + 1]]

\* insert_at handing the arriving batch to begin_merge as the older one.
insert_at_newest_first(s, batch, index) ==
    IF panicked(s) THEN s
    ELSE
    LET layers == grow(s.merging, index)
        old == layers[index + 1]
        taken == [layers EXCEPT ![index + 1] = Vacant]
    IN  CASE old.tag = "Vacant" ->
                [s EXCEPT !.merging = [layers EXCEPT ![index + 1] = Single(batch)]]
          [] old.tag = "Single" ->
                LET new == begin_merge(batch, old.batch, s.advance_frontier)
                IN  IF new = Poisoned
                    THEN [s EXCEPT !.merging = taken, !.panic = BeginMergeAssert]
                    ELSE [s EXCEPT !.merging = [layers EXCEPT ![index + 1] = new]]
          [] old.tag = "Double" ->
                [s EXCEPT !.merging = taken, !.panic = InsertIntoDouble]

\* Spine::insert_at
insert_at(s, batch, index) ==
    IF panicked(s) THEN s
    ELSE
    LET layers == grow(s.merging, index)
        old == layers[index + 1]
        taken == [layers EXCEPT ![index + 1] = Vacant]
    IN  CASE old.tag = "Vacant" ->
                [s EXCEPT !.merging = [layers EXCEPT ![index + 1] = Single(batch)]]
          [] old.tag = "Single" ->
                LET new == begin_merge(old.batch, batch, s.advance_frontier)
                IN  IF new = Poisoned
                    THEN [s EXCEPT !.merging = taken, !.panic = BeginMergeAssert]
                    ELSE [s EXCEPT !.merging = [layers EXCEPT ![index + 1] = new]]
          [] old.tag = "Double" ->
                [s EXCEPT !.merging = taken, !.panic = InsertIntoDouble]

\* complete_at returning no batch.
complete_at_discarding(s, index) ==
    IF panicked(s) THEN s
    ELSE [s EXCEPT !.merging[index + 1] = Vacant,
                   !.panic = state_complete(s.merging[index + 1]).panic,
                   !.merged = None]

\* Spine::complete_at; the Option<batch> it returns is left in `merged`.
complete_at(s, index) ==
    IF panicked(s) THEN s
    ELSE LET c == state_complete(s.merging[index + 1])
         IN  [s EXCEPT !.merging[index + 1] = Vacant, !.panic = c.panic,
                       !.merged = c.batch]

\* `self.insert_at(merged, index)` for the batch last returned by complete_at.
insert_merged_at(s, index) == insert_at(s, s.merged, index)

\* The loop of roll_up stopping after its first turn.
roll_up_loop_once(s, i, index) ==
    IF i >= index THEN s ELSE complete_at(insert_merged_at(s, i), i)

RECURSIVE roll_up_loop(_, _, _)
\* The loop `for i in 0 .. index` of roll_up.
roll_up_loop(s, i, index) ==
    IF i >= index THEN s
    ELSE roll_up_loop(complete_at(insert_merged_at(s, i), i), i + 1, index)

\* The last step of roll_up: a merge left at `index` is completed and its
\* result promoted to `index + 1`.
roll_up_promote(s, index) ==
    IF ~panicked(s) /\ is_double(s.merging[index + 1])
    THEN insert_merged_at(complete_at(s, index), index + 1)
    ELSE s

\* roll_up without its last step.
roll_up_grown_unpromoted(s, index) ==
    IF \E i \in 1 .. index : ~is_vacant(s.merging[i])
    THEN insert_merged_at(roll_up_loop(s, 0, index), index)
    ELSE s

\* roll_up once `merging` has entries up to `index` and `merged` is None.
roll_up_grown(s, index) ==
    IF \E i \in 1 .. index : ~is_vacant(s.merging[i])
    THEN roll_up_promote(insert_merged_at(roll_up_loop(s, 0, index), index), index)
    ELSE s

\* Spine::roll_up
roll_up(s, index) ==
    IF panicked(s) THEN s
    ELSE roll_up_grown([s EXCEPT !.merging = grow(s.merging, index),
                                 !.merged = None], index)

\* apply_fuel leaving a completed merge in its slot.
promote_complete_never(s, index) == s

\* One turn of apply_fuel's loop after `work`: a completed merge is taken
\* out and promoted.
promote_complete(s, index) ==
    IF is_complete(s.merging[index + 1])
    THEN insert_merged_at(complete_at(s, index), index + 1)
    ELSE s

RECURSIVE smaller_sum(_, _)
\* The sum `smaller` of tidy_layers over the slots layers[0 .. n).
smaller_sum(layers, n) ==
    IF n = 0 THEN 0
    ELSE smaller_sum(layers, n - 1)
         + (CASE layers[n].tag = "Vacant" -> 0
              [] layers[n].tag = "Single" -> Pow2(n - 1)
              [] layers[n].tag = "Double" -> 2 * Pow2(n - 1))

\* One turn of apply_fuel's loop drawing on one budget: the fuel less what
\* the layers below account for.
apply_fuel_at_shared(s, fuel, index) ==
    promote_complete(
        [s EXCEPT !.merging[index + 1] =
            state_work(s.merging[index + 1], fuel - smaller_sum(s.merging, index)).state],
        index)

\* One turn of apply_fuel's loop: `let mut fuel = *fuel; work(&mut fuel)`.
apply_fuel_at(s, fuel, index) ==
    promote_complete(
        [s EXCEPT !.merging[index + 1] = state_work(s.merging[index + 1], fuel).state],
        index)

RECURSIVE apply_fuel_loop(_, _, _, _)
\* The loop `for index in 0 .. self.merging.len()` of apply_fuel; the range
\* is fixed when the loop starts.
apply_fuel_loop(s, fuel, index, n) ==
    IF index >= n \/ panicked(s) THEN s
    ELSE apply_fuel_loop(apply_fuel_at(s, fuel, index), fuel, index + 1, n)

\* apply_fuel working on the merge of layer 0 only.
apply_fuel_lowest_only(s, fuel) ==
    IF panicked(s) \/ s.merging = <<>> THEN s ELSE apply_fuel_loop(s, fuel, 0, 1)

\* Spine::apply_fuel
apply_fuel(s, fuel) ==
    IF panicked(s) THEN s ELSE apply_fuel_loop(s, fuel, 0, Len(s.merging))

\* The test of tidy_layers against a sixteenth of the capacity.
may_draw_down_sixteenth(layers, length) ==
    smaller_sum(layers, length - 2) <= Pow2(length) \div 16

\* The test of tidy_layers that lets the top batch move down one slot.
may_draw_down(layers, length) ==
    smaller_sum(layers, length - 2) <= Pow2(length) \div 8

RECURSIVE tidy_loop(_, _)
\* The loop `while appropriate_level < length-1` of tidy_layers.
tidy_loop(s, appropriate_level) ==
    LET length == Len(s.merging)
    IN  IF ~(appropriate_level < length - 1) THEN s
        ELSE LET below == s.merging[length - 1]
             IN  CASE is_vacant(below) \/ (is_single(below) /\ ~below.batch.some) ->
                        tidy_loop([s EXCEPT !.merging = remove(s.merging, length - 2)],
                                  appropriate_level)
                   [] is_single(below) /\ below.batch.some ->
                        IF may_draw_down(s.merging, length)
                        THEN insert_at(
                                [s EXCEPT !.merging = remove(s.merging, length - 2)],
                                below.batch, length - 2)
                        ELSE s
                   [] is_double(below) -> s

\* Spine::tidy_layers
tidy_layers(s) ==
    IF panicked(s) THEN s
    ELSE IF s.merging # <<>> /\ is_single(s.merging[Len(s.merging)])
         THEN tidy_loop(s, level_of(state_len(s.merging[Len(s.merging)])))
         ELSE s

\* Spine::reduced
reduced(s) ==
    /\ \A i \in 1 .. Len(s.merging) : ~is_double(s.merging[i])
    /\ Cardinality({i \in 1 .. Len(s.merging) : state_len(s.merging[i]) > 0}) <= 1

\* introduce_batch fuelled by the effort alone, without `8 << batch_index`.
introduce_fuel_unscaled(batch_index, multiplier) == multiplier

\* The fuel of introduce_batch: `(8 << batch_index) * self.effort`.
introduce_fuel(batch_index, multiplier) == (8 * Pow2(batch_index)) * multiplier

\* Step 3 of introduce_batch; the slot the batch meets is noted in `admits`.
place_batch(s, batch, batch_index) ==
    LET met == [level |-> batch_index, batch |-> batch,
                slot |-> IF panicked(s) THEN "none"
                         ELSE s.merging[batch_index + 1].tag]
    IN  insert_at([s EXCEPT !.admits = Append(s.admits, met)], batch, batch_index)

\* Spine::introduce_batch
introduce_batch(s, batch, batch_index) ==
    IF panicked(s) THEN s
    ELSE tidy_layers(
            place_batch(
                roll_up(apply_fuel(s, introduce_fuel(batch_index, s.effort)),
                        batch_index),
                batch, batch_index))

\* consider_merges admitting the front of pending whatever through_frontier is.
admissible_always(s) == Len(s.pending) > 0

\* The loop condition of consider_merges.
admissible(s) ==
    /\ Len(s.pending) > 0
    /\ dominates(s.through_frontier, s.pending[1].upper)

RECURSIVE consider_merges_newest(_)
\* consider_merges drawing from the back of pending.
consider_merges_newest(s) ==
    IF panicked(s) \/ Len(s.pending) = 0
       \/ ~dominates(s.through_frontier, s.pending[Len(s.pending)].upper)
    THEN s
    ELSE LET batch == s.pending[Len(s.pending)]
             index == level_of(batch_len(batch))
         IN  consider_merges_newest(
                introduce_batch(
                    [s EXCEPT !.pending = SubSeq(s.pending, 1, Len(s.pending) - 1)],
                    batch, index))

RECURSIVE consider_merges(_)
\* Spine::consider_merges
consider_merges(s) ==
    IF panicked(s) \/ ~admissible(s) THEN s
    ELSE LET batch == s.pending[1]
             index == level_of(batch_len(batch))
         IN  consider_merges(
                introduce_batch([s EXCEPT !.pending = Tail(s.pending)], batch, index))

----------------------------------------------------------------------------
(* The Spine's public methods.                                             *)

\* Spine::with_effort: `if effort == 0 { effort = 1; }`
with_effort(multiplier) == IF multiplier = 0 THEN 1 ELSE multiplier

\* exert that applies fuel to merges but never introduces an empty batch.
exert_tidied_fuel_only(s, fuel) ==
    IF ~reduced(s) /\ \E i \in 1 .. Len(s.merging) : is_double(s.merging[i])
    THEN apply_fuel(s, fuel)
    ELSE s

\* exert without its test `!self.reduced()`.
exert_tidied_always(s, fuel) ==
    IF \E i \in 1 .. Len(s.merging) : is_double(s.merging[i])
    THEN apply_fuel(s, fuel)
    ELSE introduce_batch(s, None, level_of(fuel))

\* exert introducing its empty batch at level 0 whatever the effort.
exert_tidied_at_zero(s, fuel) ==
    IF ~reduced(s)
    THEN IF \E i \in 1 .. Len(s.merging) : is_double(s.merging[i])
         THEN apply_fuel(s, fuel)
         ELSE introduce_batch(s, None, 0)
    ELSE s

\* Trace::exert after its opening tidy_layers.
exert_tidied(s, fuel) ==
    IF ~reduced(s)
    THEN IF \E i \in 1 .. Len(s.merging) : is_double(s.merging[i])
         THEN apply_fuel(s, fuel)
         ELSE introduce_batch(s, None, level_of(fuel))
    ELSE s

\* Trace::exert
exert(s, fuel) == exert_tidied(tidy_layers(s), fuel)

\* insert without its second assertion (`batch.lower() == self.upper`).
insert_unchecked_lower(s, batch) ==
    IF batch.lower = batch.upper THEN [s EXCEPT !.panic = InsertEmptyAssert]
    ELSE consider_merges(
            [s EXCEPT !.upper = batch.upper, !.pending = Append(s.pending, batch)])

\* insert without its first assertion (`batch.lower() != batch.upper()`).
insert_unchecked_empty(s, batch) ==
    IF batch.lower # s.upper THEN [s EXCEPT !.panic = InsertLowerAssert]
    ELSE consider_merges(
            [s EXCEPT !.upper = batch.upper, !.pending = Append(s.pending, batch)])

\* Trace::insert
insert(s, batch) ==
    IF batch.lower = batch.upper THEN [s EXCEPT !.panic = InsertEmptyAssert]
    ELSE IF batch.lower # s.upper THEN [s EXCEPT !.panic = InsertLowerAssert]
    ELSE consider_merges(
            [s EXCEPT !.upper = batch.upper, !.pending = Append(s.pending, batch)])

\* close building its batch with the Spine's upper as lower and as upper.
closing_batch_at_upper(s) == Some(s.upper, s.upper, {})

\* The batch built by close: `builder.done(&self.upper[..], &[], &self.upper[..])`.
closing_batch(s) == Some(s.upper, <<>>, {})

\* close without its test `!self.upper.is_empty()`.
close_unguarded(s) == insert(s, closing_batch(s))

\* Trace::close
close(s) == IF s.upper # <<>> THEN insert(s, closing_batch(s)) ELSE s

\* advance_by whose empty-frontier arm clears the layers alone.
advance_by_layers_only(s, frontier) ==
    IF Len(frontier) = 0
    THEN [s EXCEPT !.advance_frontier = frontier, !.merging = <<>>]
    ELSE [s EXCEPT !.advance_frontier = frontier]

\* advance_by handing the new frontier to the merges in progress as well.
advance_by_refreshing(s, frontier) ==
    IF Len(frontier) = 0
    THEN [s EXCEPT !.advance_frontier = frontier, !.pending = <<>>, !.merging = <<>>]
    ELSE [s EXCEPT !.advance_frontier = frontier,
                   !.merging = [k \in 1 .. Len(s.merging) |->
                                  IF is_double(s.merging[k])
                                     /\ s.merging[k].variant = "InProgress"
                                  THEN [s.merging[k] EXCEPT !.frontier = frontier]
                                  ELSE s.merging[k]]]

\* TraceReader::advance_by
advance_by(s, frontier) ==
    IF Len(frontier) = 0
    THEN [s EXCEPT !.advance_frontier = frontier, !.pending = <<>>, !.merging = <<>>]
    ELSE [s EXCEPT !.advance_frontier = frontier]

\* TraceReader::distinguish_since
distinguish_since(s, frontier) ==
    consider_merges([s EXCEPT !.through_frontier = frontier])

\* The batches cursor_through takes from one layer.
layer_storage(m) ==
    CASE m.tag = "Double" /\ m.variant = "InProgress" ->
            (IF ~is_empty(m.batch1) THEN <<m.batch1>> ELSE <<>>)
            \o (IF ~is_empty(m.batch2) THEN <<m.batch2>> ELSE <<>>)
      [] m.tag = "Double" /\ m.variant = "Complete" /\ m.batch.some ->
            IF ~is_empty(m.batch) THEN <<m.batch>> ELSE <<>>
      [] m.tag = "Single" /\ m.batch.some ->
            IF ~is_empty(m.batch) THEN <<m.batch>> ELSE <<>>
      [] OTHER -> <<>>

RECURSIVE merging_storage(_, _)
\* The loop `for merge_state in self.merging.iter().rev()` of cursor_through.
merging_storage(layers, n) ==
    IF n = 0 THEN <<>>
    ELSE layer_storage(layers[n]) \o merging_storage(layers, n - 1)

include_lower(through, batch) == dominates(through, batch.lower)
include_upper(through, batch) == dominates(through, batch.upper)

\* The straddle test of cursor_through for a non-empty pending batch.
straddles(through, batch) ==
    /\ include_lower(through, batch) # include_upper(through, batch)
    /\ through # batch.lower

RECURSIVE pending_storage(_, _, _)
\* The loop `for batch in self.pending.iter()` of cursor_through.
pending_storage(queue, through, i) ==
    IF i > Len(queue) THEN [panic |-> NoPanic, storage |-> <<>>]
    ELSE LET batch == queue[i]
         IN  IF ~is_empty(batch) /\ straddles(through, batch)
             THEN [panic |-> CursorStraddles, storage |-> <<>>]
             ELSE LET rest == pending_storage(queue, through, i + 1)
                  IN  [panic |-> rest.panic,
                       storage |->
                         (IF ~is_empty(batch) /\ include_upper(through, batch)
                          THEN <<batch>> ELSE <<>>) \o rest.storage]

\* cursor_through without its assertion `self.advance_frontier.len() > 0`.
cursor_through_closed(s, through) ==
    IF ~dominates(through, s.through_frontier)
    THEN [panic |-> CursorThroughAssert, storage |-> <<>>]
    ELSE LET p == pending_storage(s.pending, through, 1)
         IN  [panic |-> p.panic,
              storage |-> IF p.panic = NoPanic
                          THEN merging_storage(s.merging, Len(s.merging)) \o p.storage
                          ELSE <<>>]

\* TraceReader::cursor_through: the panic, if any, and the batches read.
cursor_through(s, through) ==
    IF ~(Len(s.advance_frontier) > 0)
    THEN [panic |-> CursorClosedAssert, storage |-> <<>>]
    ELSE IF ~dominates(through, s.through_frontier)
    THEN [panic |-> CursorThroughAssert, storage |-> <<>>]
    ELSE LET p == pending_storage(s.pending, through, 1)
         IN  [panic |-> p.panic,
              storage |-> IF p.panic = NoPanic
                          THEN merging_storage(s.merging, Len(s.merging)) \o p.storage
                          ELSE <<>>]

RECURSIVE map_batches_layers(_, _)
\* The first loop of map_batches: every batch of the layers, top layer first.
map_batches_layers(layers, n) ==
    IF n = 0 THEN <<>>
    ELSE LET m == layers[n]
         IN  (CASE m.tag = "Double" /\ m.variant = "InProgress" ->
                     <<m.batch1, m.batch2>>
                [] m.tag = "Double" /\ m.variant = "Complete" /\ m.batch.some ->
                     <<m.batch>>
                [] m.tag = "Single" /\ m.batch.some -> <<m.batch>>
                [] OTHER -> <<>>)
             \o map_batches_layers(layers, n - 1)

\* TraceReader::map_batches: the batches visited, in order.
map_batches(s) == map_batches_layers(s.merging, Len(s.merging)) \o s.pending

----------------------------------------------------------------------------
(* The state machine.                                                      *)

NoCursor == [taken |-> FALSE]
NoCall == [kind |-> "none"]
NoOperator == [built |-> FALSE]
NoQuery == [run |-> FALSE]
NoVariable == <<>>
NoCoGroup == [built |-> FALSE]

\* The Spine's fields as one record; `admits` starts empty at every call and
\* `merged` is the local of that name in roll_up and apply_fuel.
Spine ==
    [merging |-> merging, pending |-> pending, upper |-> upper,
     advance_frontier |-> advance_frontier, through_frontier |-> through_frontier,
     effort |-> effort, panic |-> panic, admits |-> <<>>, merged |-> None]

Install(s) ==
    /\ merging' = s.merging
    /\ pending' = s.pending
    /\ upper' = s.upper
    /\ advance_frontier' = s.advance_frontier
    /\ through_frontier' = s.through_frontier
    /\ effort' = s.effort
    /\ panic' = s.panic
    /\ admits' = s.admits

\* The update sets a user batch over [lo, hi) may carry: updates of key 0 and
\* value 0, at most one per time, of diff +1 or -1.
UpdateSets(lo, hi) ==
    UNION {{ {<<0, 0, t, d[t]>> : t \in on} : d \in [on -> Diffs] }
             : on \in SUBSET (lo .. (hi - 1))}

\* The batches a caller hands to insert: any lower, an upper at most MaxSpan
\* later (an upper equal to the lower included).
UserBatches ==
    UNION {{ Some(<<lo>>, <<hi>>, upd) : upd \in UpdateSets(lo, hi) }
             : <<lo, hi>> \in {x \in Time \X Time :
                                 x[1] <= x[2] /\ x[2] <= x[1] + MaxSpan}}

\* A second family of batches, for the geometry of the layers: one time unit
\* each, holding n records (keys 0 .. n-1 at the lower time, diff +1) for n in
\* FillSizes; the last one has an empty interval.
FillBatches ==
    {Some(<<lo>>, <<lo + 1>>, {<<k, 0, lo, 1>> : k \in 0 .. (n - 1)}) :
        lo \in 0 .. (MaxT - 1), n \in FillSizes}
    \cup {Some(<<0>>, <<0>>, {})}

\* The frontiers advance_by is called with.
AdvanceFrontiers == {<<>>, <<MaxT - 1>>}

\* The state after with_effort with one of the multipliers.
Constructed(multipliers) ==
    /\ merging = <<>>
    /\ pending = <<>>
    /\ upper = <<0>>
    /\ advance_frontier = <<minimum>>
    /\ through_frontier = <<minimum>>
    /\ effort \in {with_effort(m) : m \in multipliers}
    /\ panic = NoPanic
    /\ admits = <<>>
    /\ inserted = {}
    /\ cursor = NoCursor
    /\ advanced = NoCall
    /\ validator = NoOperator
    /\ triangles = NoQuery
    /\ new_variable = NoVariable
    /\ cogroup = NoCoGroup

Init == Constructed(0 .. MaxMultiplier)

\* `inserted` gains the batch when it passes the two assertions of insert.
Insert(batch) ==
    /\ panic = NoPanic
    /\ cursor = NoCursor
    /\ inserted' = IF batch.lower # batch.upper /\ batch.lower = upper
                   THEN inserted \cup batch.updates
                   ELSE inserted
    /\ Install(insert(Spine, batch))
    /\ UNCHANGED <<cursor, advanced, validator, triangles, new_variable, cogroup>>

Close ==
    /\ panic = NoPanic
    /\ cursor = NoCursor
    /\ Install(close(Spine))
    /\ UNCHANGED <<inserted, cursor, advanced, validator, triangles, new_variable, cogroup>>

Exert(fuel) ==
    /\ panic = NoPanic
    /\ cursor = NoCursor
    /\ Install(exert(Spine, fuel))
    /\ UNCHANGED <<inserted, cursor, advanced, validator, triangles, new_variable, cogroup>>

AdvanceBy(frontier) ==
    /\ panic = NoPanic
    /\ cursor = NoCursor
    /\ Install(advance_by(Spine, frontier))
    /\ UNCHANGED <<inserted, cursor, advanced, validator, triangles, new_variable, cogroup>>

DistinguishSince(frontier) ==
    /\ panic = NoPanic
    /\ cursor = NoCursor
    /\ Install(distinguish_since(Spine, frontier))
    /\ UNCHANGED <<inserted, cursor, advanced, validator, triangles, new_variable, cogroup>>

CursorThrough(through) ==
    /\ panic = NoPanic
    /\ cursor = NoCursor
    /\ LET c == cursor_through(Spine, through)
       IN  /\ panic' = c.panic
           /\ cursor' = [taken |-> TRUE, through |-> through, storage |-> c.storage]
    /\ UNCHANGED <<merging, pending, upper, advance_frontier, through_frontier,
                   effort, admits, inserted, advanced, validator, triangles, new_variable, cogroup>>

\* The caller drops the cursor it took before it calls the Spine again.
DropCursor ==
    /\ panic = NoPanic
    /\ cursor # NoCursor
    /\ cursor' = NoCursor
    /\ UNCHANGED <<merging, pending, upper, advance_frontier, through_frontier,
                   effort, panic, admits, inserted, advanced, validator, triangles, new_variable, cogroup>>

\* A batch that insert turns away is turned away whatever it holds, so the
\* misplaced batches offered are the empty ones.
Offered(batch) == batch.lower = upper \/ batch.updates = {}

Next ==
    \/ \E batch \in UserBatches : Offered(batch) /\ Insert(batch)
    \/ Close
    \/ \E fuel \in 1 .. MaxEffort : Exert(fuel)
    \/ \E frontier \in AdvanceFrontiers : AdvanceBy(frontier)
    \/ \E frontier \in Frontiers : DistinguishSince(frontier)
    \/ \E through \in Frontiers : CursorThrough(through)
    \/ DropCursor

Spec == Init /\ [][Next]_vars

\* The calls that change the Spine, with batches drawn from FillBatches.
NextFill ==
    \/ \E batch \in FillBatches : Offered(batch) /\ Insert(batch)
    \/ Close
    \/ \E fuel \in 1 .. MaxEffort : Exert(fuel)
    \/ \E frontier \in AdvanceFrontiers : AdvanceBy(frontier)
    \/ \E frontier \in Frontiers : DistinguishSince(frontier)

SpecFill == Init /\ [][NextFill]_vars

\* The Spine under a caller that inserts well-placed batches, and a runtime
\* that calls exert again as long as the Spine asks for it: exert and
\* consider_merges call `activator.activate()` while `!self.reduced()`.
NextDrain ==
    \/ \E batch \in FillBatches :
          batch.lower = upper /\ batch.lower # batch.upper /\ Insert(batch)
    \/ Close
    \/ \E fuel \in 1 .. MaxEffort : Exert(fuel)
    \/ \E frontier \in AdvanceFrontiers : AdvanceBy(frontier)
    \/ \E frontier \in Frontiers : DistinguishSince(frontier)

\* The fields a mutating call installs, as a tuple.
installed(s) ==
    <<s.merging, s.pending, s.upper, s.advance_frontier, s.through_frontier,
      s.effort, s.panic, s.admits>>

\* ENABLED <<\E fuel \in 1 .. MaxEffort : Exert(fuel)>>_vars as a state
\* predicate: some exert call would change the Spine.
ExertEnabled ==
    /\ panic = NoPanic
    /\ cursor = NoCursor
    /\ \E fuel \in 1 .. MaxEffort :
          installed(exert(Spine, fuel)) #
              <<merging, pending, upper, advance_frontier, through_frontier,
                effort, panic, admits>>

\* Weak fairness of exert, WF_vars(\E fuel \in 1 .. MaxEffort : Exert(fuel)),
\* with its enabling condition written as the state predicate ExertEnabled.
ExertFairness ==
    \/ []<>(~ExertEnabled)
    \/ []<><<\E fuel \in 1 .. MaxEffort : Exert(fuel)>>_vars

SpecDrain == Init /\ [][NextDrain]_vars /\ ExertFairness

\* The scenario of single-record batches: distinguish_since([]) lets every
\* batch be admitted by its insert; batch i covers [i, i + 1) and holds one
\* record of key i, with either sign.  The inserts come first, one after the other; exert runs
\* once 2^n of them are in (n <= MaxN), and after an exert nothing more is
\* inserted (the last call was an insert exactly when `admits` holds a user
\* batch).
SingleRecordBatch(i, diff) == Some(<<i>>, <<i + 1>>, {<<i, 0, i, diff>>})

last_call_inserted == \E i \in 1 .. Len(admits) : admits[i].batch.some

NextSingles ==
    \/ upper = <<0>> /\ through_frontier # <<>> /\ DistinguishSince(<<>>)
    \/ /\ through_frontier = <<>>
       /\ upper # <<>>
       /\ upper[1] < Pow2(MaxN)
       /\ upper = <<0>> \/ last_call_inserted
       /\ \E diff \in Diffs : Insert(SingleRecordBatch(upper[1], diff))
    \/ /\ through_frontier = <<>>
       /\ \E n \in 0 .. MaxN : upper = <<Pow2(n)>>
       /\ \E fuel \in 1 .. MaxEffort : Exert(fuel)

SpecSingles == Init /\ [][NextSingles]_vars

\* The scenario of fuel: a Spine built with any of the multipliers, with
\* distinguish_since([]) so that every insert admits its batch; batch i covers
\* [i, i + 1) and holds n records at time i, n in FuelSizes.
FuelSizes == {1, 2, 16}

FuelBatch(i, n) == Some(<<i>>, <<i + 1>>, {<<k, 0, i, 1>> : k \in 0 .. (n - 1)})

InitFuel == Constructed(0 .. MaxFuelMultiplier)

NextFuel ==
    \/ upper = <<0>> /\ through_frontier # <<>> /\ DistinguishSince(<<>>)
    \/ /\ through_frontier = <<>>
       /\ upper # <<>>
       /\ upper[1] < MaxFuelBatches
       /\ \E n \in FuelSizes : Insert(FuelBatch(upper[1], n))

SpecFuel == InitFuel /\ [][NextFuel]_vars

\* The calls of Lattice::advance_by on their own: scalar times and Product
\* times up to the maximum, frontiers of any times in any order; one call is
\* made, and then a second call on its result with the same frontier.
ScalarTimes == minimum .. maximum
ProductTimes == {Product(outer, inner) : outer \in ScalarTimes, inner \in ScalarTimes}

FrontiersOver(times) == UNION {[1 .. n -> times] : n \in 0 .. MaxFrontier}

ScalarAdvanceBy(t, frontier) ==
    /\ advanced' = [kind |-> "scalar", time |-> t, frontier |-> frontier,
                    result |-> lattice_advance_by(t, frontier), twice |-> <<>>]
    /\ UNCHANGED <<merging, pending, upper, advance_frontier, through_frontier,
                   effort, panic, admits, inserted, cursor, validator, triangles,
                   new_variable, cogroup>>

ProductAdvanceBy(t, frontier) ==
    /\ advanced' = [kind |-> "product", time |-> t, frontier |-> frontier,
                    result |-> product_advance_by(t, frontier), twice |-> <<>>]
    /\ UNCHANGED <<merging, pending, upper, advance_frontier, through_frontier,
                   effort, panic, admits, inserted, cursor, validator, triangles,
                   new_variable, cogroup>>

AdvanceAgain ==
    /\ advanced # NoCall
    /\ advanced.twice = <<>>
    /\ advanced' =
          [advanced EXCEPT !.twice =
              <<IF advanced.kind = "scalar"
                THEN lattice_advance_by(advanced.result, advanced.frontier)
                ELSE product_advance_by(advanced.result, advanced.frontier)>>]
    /\ UNCHANGED <<merging, pending, upper, advance_frontier, through_frontier,
                   effort, panic, admits, inserted, cursor, validator, triangles,
                   new_variable, cogroup>>

NextLattice ==
    \/ /\ advanced = NoCall
       /\ \E t \in ScalarTimes : \E frontier \in FrontiersOver(ScalarTimes) :
             ScalarAdvanceBy(t, frontier)
    \/ /\ advanced = NoCall
       /\ \E t \in ProductTimes : \E frontier \in FrontiersOver(ProductTimes) :
             ProductAdvanceBy(t, frontier)
    \/ AdvanceAgain

SpecLattice == Init /\ [][NextLattice]_vars

\* Collections of updates <<key, val, time, diff>>, as sequences, and the
\* replacement of every time by advance_by(time, frontier).  The updates are
\* at times of Time; the frontiers and the query times go up to the maximum.
UpdatesOver(keys, times) == {<<k, 0, t, d>> : k \in keys, t \in times, d \in Diffs}

CollectionsOver(keys, times) ==
    UNION {[1 .. n -> UpdatesOver(keys, times)] : n \in 0 .. MaxUpdates}

\* The frontiers of Product times that are antichains, outer coordinate
\* ascending.
ProductAntichains ==
    {f \in FrontiersOver(ProductTimes) :
        \A i \in 1 .. Len(f) : \A j \in (i + 1) .. Len(f) :
            f[i].outer < f[j].outer /\ f[i].inner > f[j].inner}

advance_times(kind, collection, frontier) ==
    [i \in 1 .. Len(collection) |->
        <<collection[i][1], collection[i][2],
          IF kind = "scalar"
          THEN lattice_advance_by(collection[i][3], frontier)
          ELSE product_advance_by(collection[i][3], frontier),
          collection[i][4]>>]

AdvanceCollection(kind, collection, frontier) ==
    /\ advanced' = [kind |-> kind, collection |-> collection, frontier |-> frontier,
                    result |-> advance_times(kind, collection, frontier)]
    /\ UNCHANGED <<merging, pending, upper, advance_frontier, through_frontier,
                   effort, panic, admits, inserted, cursor, validator, triangles,
                   new_variable, cogroup>>

NextCollection ==
    \/ /\ advanced = NoCall
       /\ \E collection \in CollectionsOver({0, 1}, Time) :
          \E frontier \in FrontiersOver(ScalarTimes) :
             AdvanceCollection("scalar", collection, frontier)
    \/ /\ advanced = NoCall
       /\ \E collection \in CollectionsOver({0}, {Product(o, i) : o \in Time, i \in Time}) :
          \E frontier \in ProductAntichains :
             AdvanceCollection("product", collection, frontier)

SpecCollection == Init /\ [][NextCollection]_vars

\* The operations of the two lattice implementations on their own: join and
\* meet are applied to three times a, b, c, to the minimum and the maximum.
LatticeOps(kind, a, b, c) ==
    /\ advanced' =
          IF kind = "scalar"
          THEN [kind |-> kind, a |-> a, b |-> b, c |-> c,
                join_ab |-> join(a, b), join_ba |-> join(b, a),
                join_a_minimum |-> join(a, minimum),
                meet_a_maximum |-> meet(a, maximum),
                join_meet |-> join(a, meet(b, c)),
                meet_joins |-> meet(join(a, b), join(a, c))]
          ELSE [kind |-> kind, a |-> a, b |-> b, c |-> c,
                join_ab |-> product_join(a, b), join_ba |-> product_join(b, a),
                join_a_minimum |-> product_join(a, product_minimum),
                meet_a_maximum |-> product_meet(a, product_maximum),
                join_meet |-> product_join(a, product_meet(b, c)),
                meet_joins |-> product_meet(product_join(a, b), product_join(a, c))]
    /\ UNCHANGED <<merging, pending, upper, advance_frontier, through_frontier,
                   effort, panic, admits, inserted, cursor, validator, triangles,
                   new_variable, cogroup>>

NextLaws ==
    \/ /\ advanced = NoCall
       /\ \E a \in ScalarTimes : \E b \in ScalarTimes : \E c \in ScalarTimes :
             LatticeOps("scalar", a, b, c)
    \/ /\ advanced = NoCall
       /\ \E a \in ProductTimes : \E b \in ProductTimes : \E c \in ProductTimes :
             LatticeOps("product", a, b, c)

SpecLaws == Init /\ [][NextLaws]_vars

----------------------------------------------------------------------------
(* The validate operator (dogsdogsdogs/src/operators/validate.rs), one      *)
(* invocation of its closure per action, over the Spine as its trace.  A    *)
(* state w of an invocation is the pair of the Spine record s and the       *)
(* operator record v.                                                       *)

\* `frontier.less_equal(time)` of an input's frontier.
frontier_less_equal(frontier, t) ==
    \E i \in 1 .. Len(frontier) : less_equal(frontier[i], t)

\* The key_selector of the delta query: the prefix is its own key.
key_selector(p) == p

\* `stash.entry(capability.retain()).or_insert(Vec::new()).extend(..)`
stash_input1(w) ==
    [w EXCEPT !.v.stash = w.v.stash \cup w.v.input1.queue,
              !.v.input1.queue = {}]

RECURSIVE distinguish_batches(_, _)
\* The loop over the batches of input2 from the i-th on:
\* `trace.distinguish_since(batch.upper())` while the handle is held.
distinguish_batches(w, i) ==
    IF i > Len(w.v.input2.queue) THEN [w EXCEPT !.v.input2.queue = <<>>]
    ELSE distinguish_batches(
            IF w.v.trace
            THEN [w EXCEPT !.s = distinguish_since(w.s, w.v.input2.queue[i].upper)]
            ELSE w,
            i + 1)

\* The stashed extensions under capabilities the frontier of input2 has
\* passed, and among them those at times it has passed.
ready_capabilities(v) ==
    {e \in v.stash : ~frontier_less_equal(v.input2.frontier, e.cap)}

\* The extensions of the ready capabilities without the test of their times.
ready_extensions_by_capability(v) == ready_capabilities(v)

ready_extensions(v) ==
    {e \in ready_capabilities(v) : ~frontier_less_equal(v.input2.frontier, e.time)}

RECURSIVE cursor_count(_, _, _, _)
\* `cursor.map_times(&storage, |t, d| if t.less_equal(time) { count += d; })`
\* over the first n batches of the storage.
cursor_count(storage, n, key, time) ==
    IF n = 0 THEN 0
    ELSE cursor_count(storage, n - 1, key, time)
         + SumDiffs({u \in storage[n].updates : u[1] = key /\ less_equal(u[3], time)})

\* `cursor.get_key(&storage) == Some(&key)`
cursor_has_key(storage, key) ==
    \E n \in 1 .. Len(storage) : \E u \in storage[n].updates : u[1] = key

\* What the session is given for the extension e: `(prefix, time, prod)` when
\* the key is found and the product is not zero.
given(storage, e) ==
    LET key == <<key_selector(e.prefix), e.val>>
        prod == cursor_count(storage, Len(storage), key, e.time) * e.diff
    IN  IF cursor_has_key(storage, key) /\ prod # 0
        THEN {<<e.prefix, e.val, e.time, prod>>}
        ELSE {}

\* The ready extensions answered from the cursor c, or its panic.
answer(w, c) ==
    IF c.panic # NoPanic THEN [w EXCEPT !.s.panic = c.panic]
    ELSE [w EXCEPT
            !.v.output = w.v.output \cup UNION {given(c.storage, e) : e \in ready_extensions(w.v)},
            !.v.processed = w.v.processed \cup ready_extensions(w.v),
            !.v.answers = w.v.answers + Cardinality(ready_extensions(w.v)),
            !.v.stash = w.v.stash \ ready_extensions(w.v)]

\* `if let Some(ref mut trace) = validate_trace { for (capability, prefixes)
\* in stash.iter_mut() { .. } }`: a cursor is taken for every capability the
\* frontier of input2 has passed.
process_stash(w) ==
    IF w.v.trace /\ ready_capabilities(w.v) # {}
    THEN answer(w, cursor_through(w.s, <<>>))
    ELSE w

\* `validate_trace.as_mut().map(|trace| trace.advance_by(&input1.frontier()))`
advance_trace(w) ==
    IF w.v.trace /\ ~panicked(w.s)
    THEN [w EXCEPT !.s = advance_by(w.s, w.v.input1.frontier)]
    ELSE w

\* The release waiting for the frontiers of both inputs to be empty.
release_trace_both_closed(w) ==
    IF ~panicked(w.s) /\ w.v.input1.frontier = <<>> /\ w.v.input2.frontier = <<>>
       /\ w.v.stash = {}
    THEN [w EXCEPT !.v.trace = FALSE]
    ELSE w

\* `if input1.frontier().is_empty() && stash.is_empty() { validate_trace = None; }`
release_trace(w) ==
    IF ~panicked(w.s) /\ w.v.input1.frontier = <<>> /\ w.v.stash = {}
    THEN [w EXCEPT !.v.trace = FALSE]
    ELSE w

\* The closure of binary_frontier, invoked once.
validate_closure(w) ==
    release_trace(advance_trace(process_stash(distinguish_batches(stash_input1(w), 1))))

\* The operator as built: the trace handle held, nothing stashed.
NewOperator ==
    [built |-> TRUE, trace |-> TRUE, stash |-> {}, output |-> {}, processed |-> {},
     answers |-> 0, sent |-> {},
     input1 |-> [frontier |-> <<minimum>>, queue |-> {}],
     input2 |-> [frontier |-> <<minimum>>, queue |-> <<>>]]

\* The extensions ((prefix, val), time, diff) sent under a capability at `cap`.
\* Those for the arranged key (1, 5) are at any of the times, the one for the
\* absent key (1, 6) at the first.
Extensions ==
    {[prefix |-> 1, val |-> 5, cap |-> cap, time |-> time, diff |-> 2] :
        cap \in 0 .. 1, time \in 0 .. 1}
    \cup {[prefix |-> 1, val |-> 6, cap |-> 0, time |-> 0, diff |-> 2]}

\* The frontiers of input1: the extension times, the time after them, closed.
ExtensionFrontiers == {<<>>} \cup {<<t>> : t \in 0 .. 2}

\* The batch the arrange operator builds for [lo, lo + 1): the key (1, 5) with
\* the unit value at diff d.
ArrangedBatch(lo, d) == Some(<<lo>>, <<lo + 1>>, {<<<<1, 5>>, <<>>, lo, d>>})

Build ==
    /\ validator = NoOperator
    /\ validator' = NewOperator
    /\ UNCHANGED <<merging, pending, upper, advance_frontier, through_frontier,
                   effort, panic, admits, inserted, cursor, advanced, triangles,
                   new_variable, cogroup>>

\* An extension arrives at input1, at a time its frontier has not passed.
SendExtension(e) ==
    /\ validator # NoOperator
    /\ panic = NoPanic
    /\ e \notin validator.sent
    /\ Cardinality(validator.sent) < MaxExtensions
    /\ e.cap <= e.time
    /\ frontier_less_equal(validator.input1.frontier, e.cap)
    /\ validator' = [validator EXCEPT !.sent = validator.sent \cup {e},
                                      !.input1.queue = validator.input1.queue \cup {e}]
    /\ UNCHANGED <<merging, pending, upper, advance_frontier, through_frontier,
                   effort, panic, admits, inserted, cursor, advanced, triangles,
                   new_variable, cogroup>>

\* The frontier of input1 advances; queued messages hold it back.
AdvanceInput1(frontier) ==
    /\ validator # NoOperator
    /\ panic = NoPanic
    /\ frontier # validator.input1.frontier
    /\ dominates(frontier, validator.input1.frontier)
    /\ \A e \in validator.input1.queue : frontier_less_equal(frontier, e.cap)
    /\ validator' = [validator EXCEPT !.input1.frontier = frontier]
    /\ UNCHANGED <<merging, pending, upper, advance_frontier, through_frontier,
                   effort, panic, admits, inserted, cursor, advanced, triangles,
                   new_variable, cogroup>>

\* The arrange operator inserts its next batch into the Spine and sends it
\* on input2.
Arrange(d) ==
    /\ validator # NoOperator
    /\ panic = NoPanic
    /\ upper # <<>>
    /\ upper[1] < MaxT
    /\ inserted' = inserted \cup ArrangedBatch(upper[1], d).updates
    /\ Install(insert(Spine, ArrangedBatch(upper[1], d)))
    /\ validator' = [validator EXCEPT
                        !.input2.queue = Append(validator.input2.queue,
                                                ArrangedBatch(upper[1], d))]
    /\ UNCHANGED <<cursor, advanced, triangles, new_variable, cogroup>>

\* The input of the arrange operator closes: it closes the Spine and sends
\* the closing batch on input2.
CloseArrangement ==
    /\ validator # NoOperator
    /\ panic = NoPanic
    /\ upper # <<>>
    /\ Install(close(Spine))
    /\ validator' = [validator EXCEPT
                        !.input2.queue = Append(validator.input2.queue,
                                                closing_batch(Spine))]
    /\ UNCHANGED <<inserted, cursor, advanced, triangles, new_variable, cogroup>>

\* The frontier of input2 advances, up to what arrange has inserted; queued
\* batches hold it back.
AdvanceInput2(frontier) ==
    /\ validator # NoOperator
    /\ panic = NoPanic
    /\ frontier # validator.input2.frontier
    /\ dominates(frontier, validator.input2.frontier)
    /\ dominates(upper, frontier)
    /\ \A i \in 1 .. Len(validator.input2.queue) :
          dominates(validator.input2.queue[i].lower, frontier)
    /\ validator' = [validator EXCEPT !.input2.frontier = frontier]
    /\ UNCHANGED <<merging, pending, upper, advance_frontier, through_frontier,
                   effort, panic, admits, inserted, cursor, advanced, triangles,
                   new_variable, cogroup>>

\* The operator is scheduled.
Schedule ==
    /\ validator # NoOperator
    /\ panic = NoPanic
    /\ Install(validate_closure([s |-> Spine, v |-> validator]).s)
    /\ validator' = validate_closure([s |-> Spine, v |-> validator]).v
    /\ UNCHANGED <<inserted, cursor, advanced, triangles, new_variable, cogroup>>

NextValidate ==
    \/ Build
    \/ \E e \in Extensions : SendExtension(e)
    \/ \E frontier \in ExtensionFrontiers : AdvanceInput1(frontier)
    \/ \E d \in Diffs : Arrange(d)
    \/ CloseArrangement
    \/ \E frontier \in Frontiers : AdvanceInput2(frontier)
    \/ Schedule

SpecValidate == Init /\ [][NextValidate]_vars

----------------------------------------------------------------------------
(* The triangle delta query (dogsdogsdogs/examples/delta_query.rs).  An     *)
(* update of a collection or an arrangement is a record with its data (or   *)
(* key and val), its time and its diff; a time of the inner scope is        *)
(* <<t, "alt">> or <<t, "neu">>.                                            *)

\* AltNeu::alt and AltNeu::neu
alt(t) == <<t, "alt">>
neu(t) == <<t, "neu">>

\* The order with neu before alt at one time.
altneu_less_equal_neu_first(t1, t2) ==
    IF t1[1] = t2[1] THEN t1[2] = "neu" \/ t2[2] = "alt" ELSE less_equal(t1[1], t2[1])

\* The order of AltNeu times: by time, and at one time alt before neu.
altneu_less_equal(t1, t2) ==
    IF t1[1] = t2[1] THEN t1[2] = "alt" \/ t2[2] = "neu" ELSE less_equal(t1[1], t2[1])

\* `edges.arrange_by_key()`
forward_key(edges) ==
    {[key |-> u.data[1], val |-> u.data[2], time |-> u.time, diff |-> u.diff] : u \in edges}

\* `edges.map(|(x,y)| (y,x)).arrange_by_key()`
reverse_key(edges) ==
    {[key |-> u.data[2], val |-> u.data[1], time |-> u.time, diff |-> u.diff] : u \in edges}

\* `edges.arrange_by_self()`
forward_self(edges) ==
    {[key |-> u.data, val |-> <<>>, time |-> u.time, diff |-> u.diff] : u \in edges}

\* `edges.map(|(x,y)| (y,x)).arrange_by_self()`
reverse_self(edges) ==
    {[key |-> <<u.data[2], u.data[1]>>, val |-> <<>>, time |-> u.time, diff |-> u.diff] :
        u \in edges}

\* `edges.enter(inner)`: the changes enter at alt.
enter(edges) == {[u EXCEPT !.time = alt(u.time)] : u \in edges}

\* `arranged.enter_at(inner, |_,_,t| AltNeu::alt(t.clone()))`
enter_at_alt(arranged) == {[u EXCEPT !.time = alt(u.time)] : u \in arranged}

\* `arranged.enter_at(inner, |_,_,t| AltNeu::neu(t.clone()))`
enter_at_neu(arranged) == {[u EXCEPT !.time = neu(u.time)] : u \in arranged}

\* forward_key entered at alt where the example enters it at neu.
forward_key_neu_at_alt(edges) == enter_at_alt(forward_key(edges))

forward_key_alt(edges) == enter_at_alt(forward_key(edges))
reverse_key_alt(edges) == enter_at_alt(reverse_key(edges))
forward_key_neu(edges) == enter_at_neu(forward_key(edges))
reverse_self_alt(edges) == enter_at_alt(reverse_self(edges))
forward_self_neu(edges) == enter_at_neu(forward_self(edges))
reverse_self_neu(edges) == enter_at_neu(reverse_self(edges))

\* The key selectors `|x: &(u32, u32)| x.0` and `|x: &(u32, u32)| x.1`, and
\* their application.
key1 == "x.0"
key2 == "x.1"
select(key_fn, x) == IF key_fn = key1 THEN x[1] ELSE x[2]

RECURSIVE weight(_)
\* The sum of the diffs of a set of updates.
weight(updates) ==
    IF updates = {} THEN 0
    ELSE LET u == CHOOSE x \in updates : TRUE
         IN  u.diff + weight(updates \ {u})

\* The count a cursor accumulates for (key, val) at times <= time.
count_at(arranged, key, val, time) ==
    weight({u \in arranged : u.key = key /\ u.val = val /\ altneu_less_equal(u.time, time)})

\* The vals a cursor finds under `key` with a count that is not zero.
vals_at(arranged, key, time) ==
    {v \in {u.val : u \in {x \in arranged : x.key = key}} :
        count_at(arranged, key, v, time) # 0}

\* propose: every change is extended by each val of its key in the
\* arrangement, at the diff of the change times the count of the val.
propose(changes, arranged, key_fn) ==
    UNION {{[data |-> <<c.data, v>>, time |-> c.time,
             diff |-> c.diff * count_at(arranged, select(key_fn, c.data), v, c.time)] :
                v \in vals_at(arranged, select(key_fn, c.data), c.time)} : c \in changes}

\* validate: every extension ((prefix, val), time, diff) whose key
\* (key_selector(prefix), val) has a count that is not zero is passed on at
\* its diff times the count.
validate(extensions, arranged, key_fn) ==
    {[e EXCEPT !.diff = e.diff * count_at(arranged, <<select(key_fn, e.data[1]), e.data[2]>>,
                                          <<>>, e.time)] :
        e \in {x \in extensions :
                count_at(arranged, <<select(key_fn, x.data[1]), x.data[2]>>, <<>>,
                         x.time) # 0}}

\* dQ/dE1 := dE1(a,b), E2(b,c), E3(a,c)
changes1(edges) ==
    {[data |-> <<u.data[1][1], u.data[1][2], u.data[2]>>, time |-> u.time, diff |-> u.diff] :
        u \in validate(propose(enter(edges), forward_key_neu(edges), key2),
                       forward_self_neu(edges), key1)}

\* dQ/dE2 := dE2(b,c), E1(a,b), E3(a,c)
changes2(edges) ==
    {[data |-> <<u.data[2], u.data[1][1], u.data[1][2]>>, time |-> u.time, diff |-> u.diff] :
        u \in validate(propose(enter(edges), reverse_key_alt(edges), key1),
                       reverse_self_neu(edges), key2)}

\* dQ/dE3 := dE3(a,c), E1(a,b), E2(b,c)
changes3(edges) ==
    {[data |-> <<u.data[1][1], u.data[2], u.data[1][2]>>, time |-> u.time, diff |-> u.diff] :
        u \in validate(propose(enter(edges), forward_key_alt(edges), key1),
                       reverse_self_alt(edges), key2)}

\* The AltNeu times over Time.
AltNeuTimes == {alt(t) : t \in Time} \cup {neu(t) : t \in Time}

\* The order is asked about three AltNeu times, and about the alt and the neu
\* of the time of the first.
CompareAltNeu(a, b, c) ==
    /\ advanced' = [kind |-> "altneu", a |-> a, b |-> b, c |-> c,
                    aa |-> altneu_less_equal(a, a),
                    ab |-> altneu_less_equal(a, b),
                    ba |-> altneu_less_equal(b, a),
                    bc |-> altneu_less_equal(b, c),
                    ac |-> altneu_less_equal(a, c),
                    alt_neu |-> altneu_less_equal(alt(a[1]), neu(a[1])),
                    neu_alt |-> altneu_less_equal(neu(a[1]), alt(a[1]))]
    /\ UNCHANGED <<merging, pending, upper, advance_frontier, through_frontier,
                   effort, panic, admits, inserted, cursor, validator, triangles,
                   new_variable, cogroup>>

NextAltNeu ==
    /\ advanced = NoCall
    /\ \E a \in AltNeuTimes, b \in AltNeuTimes, c \in AltNeuTimes : CompareAltNeu(a, b, c)

SpecAltNeu == Init /\ [][NextAltNeu]_vars

\* The nodes and the edges of the graphs, and the times of their updates.
Nodes == 1 .. MaxNodes
EdgeSet == {e \in Nodes \X Nodes : e[1] # e[2]}
Rounds == 0 .. 1

\* What happens to an edge: it is never inserted, inserted in one of the
\* rounds, or inserted in the first and removed in the second.
Fates == {<<>>, <<0, 1>>, <<1, 1>>, <<0, 1, -1>>}

\* The updates of the collection `edges` when every edge e meets fate[e].
edge_updates(fate) ==
    {[data |-> e, time |-> fate[e][1], diff |-> 1] : e \in {x \in EdgeSet : fate[x] # <<>>}}
    \cup {[data |-> e, time |-> 1, diff |-> -1] : e \in {x \in EdgeSet : Len(fate[x]) = 3}}

\* The dataflow is run on the edge updates to completion; the three streams
\* are concatenated on leaving the scope.
RunQuery(edges) ==
    /\ triangles = NoQuery
    /\ triangles' = [run |-> TRUE, edges |-> edges, changes1 |-> changes1(edges),
                     changes2 |-> changes2(edges), changes3 |-> changes3(edges)]
    /\ UNCHANGED <<merging, pending, upper, advance_frontier, through_frontier,
                   effort, panic, admits, inserted, cursor, advanced, validator,
                   new_variable, cogroup>>

NextQuery == \E fate \in [EdgeSet -> Fates] : RunQuery(edge_updates(fate))

SpecQuery == Init /\ [][NextQuery]_vars

----------------------------------------------------------------------------
(* NewVariable (examples/dataflog.rs).  new_variable is the sequence of the *)
(* Variables created; each holds whether its feedback handle is still       *)
(* there, whether it was dropped, and the stream connected to its loop      *)
(* (0 for none).                                                            *)

UnsetVariable == "unset new_variable"

\* The streams a Variable may be set to: the outputs of the Variables.
Streams == 1 .. MaxVariables

\* NewVariable::from
from == [feedback |-> TRUE, dropped |-> FALSE, loop |-> 0]

\* Drop for NewVariable: the Variable and the panic it ends in.
drop(v) ==
    [variable |-> [v EXCEPT !.dropped = TRUE],
     panic |-> IF v.feedback THEN UnsetVariable ELSE NoPanic]

\* set leaving the feedback handle in place.
set_without_take(v, result) == drop([v EXCEPT !.loop = result])

\* NewVariable::set: `self.feedback.take()` and connect_loop; self is dropped
\* as the method returns.
set(v, result) ==
    IF v.feedback
    THEN drop([v EXCEPT !.feedback = FALSE, !.loop = result])
    ELSE drop(v)

From ==
    /\ panic = NoPanic
    /\ Len(new_variable) < MaxVariables
    /\ new_variable' = Append(new_variable, from)
    /\ UNCHANGED <<merging, pending, upper, advance_frontier, through_frontier,
                   effort, panic, admits, inserted, cursor, advanced, validator,
                   triangles, cogroup>>

Set(i, result) ==
    /\ panic = NoPanic
    /\ ~new_variable[i].dropped
    /\ new_variable' = [new_variable EXCEPT ![i] = set(new_variable[i], result).variable]
    /\ panic' = set(new_variable[i], result).panic
    /\ UNCHANGED <<merging, pending, upper, advance_frontier, through_frontier,
                   effort, admits, inserted, cursor, advanced, validator, triangles, cogroup>>

Drop(i) ==
    /\ panic = NoPanic
    /\ ~new_variable[i].dropped
    /\ new_variable' = [new_variable EXCEPT ![i] = drop(new_variable[i]).variable]
    /\ panic' = drop(new_variable[i]).panic
    /\ UNCHANGED <<merging, pending, upper, advance_frontier, through_frontier,
                   effort, admits, inserted, cursor, advanced, validator, triangles, cogroup>>

NextVariable ==
    \/ From
    \/ \E i \in 1 .. Len(new_variable), result \in Streams : Set(i, result)
    \/ \E i \in 1 .. Len(new_variable) : Drop(i)

SpecVariable == Init /\ [][NextVariable]_vars

----------------------------------------------------------------------------
(* The cogroup operator (src/operators/cogroup.rs), on Product times.  The  *)
(* traces source1, source2 and result are sets of updates                   *)
(* <<key, val, time, diff>>; Trace, Compact, Coalesce and the notificator  *)
(* are not part of the sources and follow their use in cogroup_by_inner.   *)

\* Times are Product(0 .. MaxCoTime, 0 .. MaxCoTime).
MaxCoTime == 1

CoTimes == {Product(outer, inner) : outer \in 0 .. MaxCoTime, inner \in 0 .. MaxCoTime}
CoKeys == {0}
CoDiffs == {1, -1}

\* The user logics of the scenario: "both" reports the key once when both
\* inputs hold values for it, "first" reports the values of the first input.
Logics == {"both", "first"}

\* The orders the notificator may deliver completed times in: by outer
\* coordinate first, or by inner coordinate first.
DeliveryOrders == {"outer", "inner"}

\* `logic(&key, &mut input1, &mut input2, &mut buffer)`
logic(name, input1, input2) ==
    CASE name = "both" -> IF input1 # {} /\ input2 # {} THEN {<<"ab", 1>>} ELSE {}
      [] name = "first" -> input1

\* Trace::get_collection_using: the (val, wgt) pairs of the key accumulated
\* over the differences at times <= time, zero weights left out.
get_collection_using(trace, key, time) ==
    {p \in {<<u[2], SumDiffs({x \in trace : /\ x[1] = key
                                            /\ x[2] = u[2]
                                            /\ product_less_equal(x[3], time)})>> :
                u \in {x \in trace : x[1] = key}} : p[2] # 0}

\* Trace::set_difference: the differences of one time are installed.
set_difference(trace, compact) == trace \cup compact

\* Trace::interesting_times: the time of the change and its least upper
\* bounds with the times at which the trace holds differences for the key.
interesting_times(trace, key, index) ==
    LET lubs == {index} \cup {product_join(index, u[3]) : u \in {x \in trace : x[1] = key}}
    IN  {product_join(a, b) : a \in lubs, b \in lubs}

\* The weight of val among (val, wgt) pairs.
pair_weight(pairs, val) ==
    IF \E p \in pairs : p[1] = val
    THEN (CHOOSE p \in pairs : p[1] = val)[2]
    ELSE 0

\* Coalesce over the reported output negated, merged with the buffer: one
\* pair per val with the weights summed, zero weights left out.
coalesce(reported, buffer) ==
    {p \in {<<q[1], pair_weight(buffer, q[1]) - pair_weight(reported, q[1])>> :
                q \in reported \cup buffer} : p[2] # 0}

\* cogroup_by_inner before any input: empty traces, nothing stashed.
cogroup_by_inner(name) ==
    [built |-> TRUE, logic |-> name, closed |-> {},
     inputs1 |-> {}, inputs2 |-> {}, source1 |-> {}, source2 |-> {},
     result |-> {}, to_do |-> {}, notify |-> {}, output |-> {}]

\* The times for which to_do has an entry.
to_do_times(op) == {e[1] : e \in op.to_do}

\* Step 2a for the first input: the data stashed for `index` are installed in
\* source1 and the interesting times of their keys entered in to_do.
fetch1(op, index) ==
    LET compact == {u \in op.inputs1 : u[3] = index}
        entries == UNION {{<<time, u[1]>> :
                              time \in interesting_times(op.source1, u[1], index)} :
                          u \in compact}
    IN  IF compact = {} THEN op
        ELSE [op EXCEPT !.inputs1 = @ \ compact,
                        !.to_do = @ \cup entries,
                        !.notify = @ \cup ({e[1] : e \in entries} \ to_do_times(op)),
                        !.source1 = set_difference(@, compact)]

\* Step 2a for the second input.
fetch2(op, index) ==
    LET compact == {u \in op.inputs2 : u[3] = index}
        entries == UNION {{<<time, u[1]>> :
                              time \in interesting_times(op.source2, u[1], index)} :
                          u \in compact}
    IN  IF compact = {} THEN op
        ELSE [op EXCEPT !.inputs2 = @ \ compact,
                        !.to_do = @ \cup entries,
                        !.notify = @ \cup ({e[1] : e \in entries} \ to_do_times(op)),
                        !.source2 = set_difference(@, compact)]

\* The differences step 2b finds for one key at `index`.
key_differences(op, key, index) ==
    LET input1 == get_collection_using(op.source1, key, index)
        input2 == get_collection_using(op.source2, key, index)
        buffer == IF input1 # {} \/ input2 # {}
                  THEN logic(op.logic, input1, input2)
                  ELSE {}
    IN  {<<key, p[1], index, p[2]>> :
            p \in coalesce(get_collection_using(op.result, key, index), buffer)}

\* Step 2b: the keys to do at `index` are recomputed, the differences sent
\* and installed in result.
produce(op, index) ==
    LET accumulation == UNION {key_differences(op, e[2], index) :
                                  e \in {x \in op.to_do : x[1] = index}}
    IN  [op EXCEPT !.to_do = {x \in @ : x[1] # index},
                   !.output = @ \cup accumulation,
                   !.result = set_difference(@, accumulation)]

\* One turn of `while let Some((index, _count)) = notificator.next()`.
notified(op, index) ==
    produce(fetch2(fetch1([op EXCEPT !.notify = @ \ {index}], index), index), index)

\* The place of a time in a delivery order.
delivery_rank(time, order) ==
    IF order = "outer"
    THEN time.outer * (MaxCoTime + 1) + time.inner
    ELSE time.inner * (MaxCoTime + 1) + time.outer

\* The notifications the notificator can deliver.
deliverable(op) == op.notify \cap op.closed

RECURSIVE binary_notify(_, _)
\* The closure handed to binary_notify, once its inputs are stashed: the
\* notifications are taken one by one until none can be delivered.
binary_notify(op, order) ==
    IF deliverable(op) = {} THEN op
    ELSE binary_notify(
            notified(op, CHOOSE t \in deliverable(op) :
                            \A s \in deliverable(op) :
                                delivery_rank(t, order) <= delivery_rank(s, order)),
            order)

CoGroupBy(name) ==
    /\ cogroup = NoCoGroup
    /\ merging = <<>> /\ pending = <<>> /\ upper = <<0>> /\ cursor = NoCursor
    /\ validator = NoOperator /\ triangles = NoQuery /\ new_variable = NoVariable
    /\ advanced = NoCall
    /\ cogroup' = cogroup_by_inner(name)
    /\ UNCHANGED <<merging, pending, upper, advance_frontier, through_frontier,
                   effort, panic, admits, inserted, cursor, advanced, validator,
                   triangles, new_variable>>

\* A record arrives on the first input at a time its frontier has not passed:
\* step 1 stashes it and asks for a notification.
Input1(time, diff) ==
    /\ cogroup # NoCoGroup
    /\ time \notin cogroup.closed
    /\ \A u \in cogroup.inputs1 : u[3] # time
    /\ cogroup' = [cogroup EXCEPT !.inputs1 = @ \cup {<<0, "a", time, diff>>},
                                  !.notify = @ \cup {time}]
    /\ UNCHANGED <<merging, pending, upper, advance_frontier, through_frontier,
                   effort, panic, admits, inserted, cursor, advanced, validator,
                   triangles, new_variable>>

\* A record arrives on the second input.
Input2(time, diff) ==
    /\ cogroup # NoCoGroup
    /\ time \notin cogroup.closed
    /\ \A u \in cogroup.inputs2 : u[3] # time
    /\ cogroup' = [cogroup EXCEPT !.inputs2 = @ \cup {<<0, "b", time, diff>>},
                                  !.notify = @ \cup {time}]
    /\ UNCHANGED <<merging, pending, upper, advance_frontier, through_frontier,
                   effort, panic, admits, inserted, cursor, advanced, validator,
                   triangles, new_variable>>

\* The frontiers of both inputs pass a time whose predecessors they have
\* passed.
PassFrontier(time) ==
    /\ cogroup # NoCoGroup
    /\ time \notin cogroup.closed
    /\ \A s \in CoTimes : product_less_equal(s, time) /\ s # time => s \in cogroup.closed
    /\ cogroup' = [cogroup EXCEPT !.closed = @ \cup {time}]
    /\ UNCHANGED <<merging, pending, upper, advance_frontier, through_frontier,
                   effort, panic, admits, inserted, cursor, advanced, validator,
                   triangles, new_variable>>

\* The operator is scheduled with notifications to deliver.
RunCoGroup(order) ==
    /\ cogroup # NoCoGroup
    /\ deliverable(cogroup) # {}
    /\ cogroup' = binary_notify(cogroup, order)
    /\ UNCHANGED <<merging, pending, upper, advance_frontier, through_frontier,
                   effort, panic, admits, inserted, cursor, advanced, validator,
                   triangles, new_variable>>

NextCoGroup ==
    \/ \E name \in Logics : CoGroupBy(name)
    \/ \E time \in CoTimes, diff \in CoDiffs : Input1(time, diff)
    \/ \E time \in CoTimes, diff \in CoDiffs : Input2(time, diff)
    \/ \E time \in CoTimes : PassFrontier(time)
    \/ \E order \in DeliveryOrders : RunCoGroup(order)

SpecCoGroup == Init /\ [][NextCoGroup]_vars

----------------------------------------------------------------------------
(* Claims.                                                                *)

\* What a call insert(batch) made on the Spine s0 must leave as s.
insert_contract(s0, batch, s) ==
    /\ (s.panic = NoPanic => batch.lower = s0.upper /\ s.upper = batch.upper)
    /\ (batch.lower # s0.upper =>
            /\ s.panic # NoPanic
            /\ s.upper = s0.upper
            /\ s.pending = s0.pending
            /\ s.merging = s0.merging)

\* C1: insert(batch) succeeds only when batch.lower equals the Spine's upper;
\* otherwise it panics and leaves upper, pending and the layers as they were.
\* After a successful insert the Spine's upper is batch.upper.  Stated of the
\* call made in any reachable state.
C1_InsertContract ==
    panic = NoPanic =>
        \A batch \in UserBatches :
            insert_contract(Spine, batch, insert(Spine, batch))

\* C1 witness: an insert was accepted (upper moved to the batch's upper and
\* the batch is held), in a state where the misplaced batches are turned away.
C1_Witness ==
    /\ panic = NoPanic
    /\ upper = <<2>>
    /\ Len(pending) = 1 /\ pending[1].lower = <<0>> /\ pending[1].upper = <<2>>
    /\ insert(Spine, Some(<<0>>, <<2>>, {})).panic = InsertLowerAssert

----------------------------------------------------------------------------
\* The live batches form a chain: each upper is the next one's lower.
chained(batches) ==
    \A i \in 1 .. (Len(batches) - 1) : batches[i].upper = batches[i + 1].lower

\* C2: the live batches, read top layer down (batch1 before batch2 within a
\* merge) and then along pending, form a chain, and the assertion of
\* begin_merge never fails.
C2_Chain ==
    /\ panic # BeginMergeAssert
    /\ panic = NoPanic => chained(map_batches(Spine))

\* C2 witness: a merge of two batches is in progress in a layer above layer 0
\* while other batches are live in the layers and in pending.
C2_Witness ==
    /\ panic = NoPanic
    /\ \E k \in 2 .. Len(merging) :
          is_double(merging[k]) /\ merging[k].variant = "InProgress"
    /\ Len(pending) >= 1
    /\ Len(map_batches(Spine)) >= 4

in_progress(m) == is_double(m) /\ m.variant = "InProgress"

\* C3: below every layer k that holds an in-progress merge, the bookkeeping
\* sizes (2^i per Single, 2 * 2^i per Double at layer i) sum to less than 2^k.
C3_Invasion ==
    panic = NoPanic =>
        \A k \in 1 .. Len(merging) :
            in_progress(merging[k]) => smaller_sum(merging, k - 1) < Pow2(k - 1)

\* C3 witness: a merge is in progress at layer 2 with a batch below it.
C3_Witness ==
    /\ panic = NoPanic
    /\ Len(merging) >= 3
    /\ in_progress(merging[3])
    /\ smaller_sum(merging, 2) > 0

\* C4: insert_at never meets a Double slot.
C4_NoInsertIntoDouble == panic # InsertIntoDouble

\* C4 witness: insert_at has placed a user batch above layer 0 onto a Single
\* slot, and promotions have filled a layer at index 3 or above.
C4_Witness ==
    /\ panic = NoPanic
    /\ \E i \in 1 .. Len(admits) :
          admits[i].batch.some /\ admits[i].level > 0 /\ admits[i].slot = "Single"
    /\ \E k \in 4 .. Len(merging) : ~is_vacant(merging[k])

\* ceil(log2(n)) for n >= 1, and 0 for an empty batch.
ceil_log2(n) ==
    IF n = 0 THEN 0
    ELSE CHOOSE k \in 0 .. n : Pow2(k) >= n /\ (k = 0 \/ Pow2(k - 1) < n)

\* The user batches admitted by the last call, as introduce_batch met them.
user_admits == {admits[i] : i \in {j \in 1 .. Len(admits) : admits[j].batch.some}}

stays_pending(s0, s) ==
    \A i \in 1 .. Len(s0.pending) :
        ~dominates(s0.through_frontier, s0.pending[i].upper) =>
            \E j \in 1 .. Len(s.pending) : s.pending[j] = s0.pending[i]

\* C6: a batch leaves pending for the layers only when through_frontier
\* dominates its upper, and a pending batch whose upper is not so dominated
\* stays pending across insert and exert.
C6_Admission ==
    /\ \A a \in user_admits : dominates(through_frontier, a.batch.upper)
    /\ panic = NoPanic =>
          /\ \A batch \in UserBatches :
                Offered(batch) => stays_pending(Spine, insert(Spine, batch))
          /\ \A fuel \in 1 .. MaxEffort : stays_pending(Spine, exert(Spine, fuel))

\* C6 witness: the last call admitted a batch while the batch behind it, whose
\* upper through_frontier does not dominate, remained pending.
C6_Witness ==
    /\ panic = NoPanic
    /\ user_admits # {}
    /\ Len(pending) >= 1
    /\ ~dominates(through_frontier, pending[1].upper)

RECURSIVE storage_sum(_, _, _, _, _)
\* The diffs a cursor over storage[i ..] accumulates for (k, v) at times <= t.
storage_sum(storage, i, k, v, t) ==
    IF i > Len(storage) THEN 0
    ELSE SumDiffs({u \in storage[i].updates :
                        u[1] = k /\ u[2] = v /\ less_equal(u[3], t)})
         + storage_sum(storage, i + 1, k, v, t)

\* The same accumulation over the updates of every batch ever inserted.
inserted_sum(k, v, t) ==
    SumDiffs({u \in inserted : u[1] = k /\ u[2] = v /\ less_equal(u[3], t)})

\* C7: while advance_frontier is still the minimum, a cursor taken through a
\* frontier that dominates the upper of every inserted batch accumulates, for
\* every (key, val) and every time, what the inserted batches hold.
C7_TraceConsistency ==
    (/\ cursor # NoCursor
     /\ panic = NoPanic
     /\ advance_frontier = <<minimum>>
     /\ dominates(cursor.through, upper)) =>
        \A t \in Time :
            /\ storage_sum(cursor.storage, 1, 0, 0, t) = inserted_sum(0, 0, t)
            /\ \A u \in inserted : u[1] = 0 /\ u[2] = 0

\* C7 witness: the cursor reads a batch over [0, 3) with three updates, which
\* only merges of inserted batches produce, with advance_frontier at minimum.
C7_Witness ==
    /\ cursor # NoCursor
    /\ panic = NoPanic
    /\ advance_frontier = <<minimum>>
    /\ dominates(cursor.through, upper)
    /\ \E i \in 1 .. Len(cursor.storage) :
          /\ cursor.storage[i].lower = <<0>>
          /\ cursor.storage[i].upper = <<3>>
          /\ batch_len(cursor.storage[i]) = 3

\* The non-empty batches the Spine holds, in map_batches order.
live_batches == {b \in {map_batches(Spine)[i] : i \in 1 .. Len(map_batches(Spine))} :
                    ~is_empty(b)}

in_storage(b) == \E i \in 1 .. Len(cursor.storage) : cursor.storage[i] = b

\* C8 as stated: cursor_through(upper) includes a batch exactly when upper
\* dominates the batch's upper, excludes it exactly when upper <= batch.lower,
\* and panics for a non-empty batch that upper straddles, for every live
\* batch, those in the layers as well as those in pending.
C8_InclusionRule ==
    cursor # NoCursor /\ panic \in {NoPanic, CursorStraddles} =>
        /\ panic = NoPanic =>
              \A b \in live_batches :
                  /\ in_storage(b) <=> dominates(cursor.through, b.upper)
                  /\ ~in_storage(b) <=> dominates(b.lower, cursor.through)
        /\ panic = CursorStraddles <=>
              \E b \in live_batches :
                  /\ ~dominates(cursor.through, b.upper)
                  /\ ~dominates(b.lower, cursor.through)

\* C9: advance_by with an empty frontier leaves the layers and pending empty,
\* so that map_batches visits nothing.
C9_AdvanceByEmpty ==
    [][AdvanceBy(<<>>) =>
            /\ merging' = <<>>
            /\ pending' = <<>>
            /\ map_batches(Spine)' = <<>>]_vars

\* C9 witness: batches with updates were inserted, and after advance_by with
\* an empty frontier neither the layers nor pending hold anything.
C9_Witness ==
    /\ panic = NoPanic
    /\ advance_frontier = <<>>
    /\ inserted # {}
    /\ merging = <<>>
    /\ pending = <<>>

\* C10 as stated: once advance_by was given an empty frontier, cursor_through
\* does not fail, its cursor enumerates nothing, and the Spine holds no
\* batches from then on.
C10_EmptyCursor ==
    advance_frontier = <<>> =>
        /\ panic # CursorClosedAssert
        /\ cursor # NoCursor => cursor.storage = <<>>
        /\ map_batches(Spine) = <<>>

\* C10 amended: while advance_frontier is empty, every cursor_through call
\* fails the assertion `self.advance_frontier.len() > 0` and reads no batch.
C10_ClosedCursorFails ==
    advance_frontier = <<>> /\ cursor # NoCursor =>
        /\ panic = CursorClosedAssert
        /\ cursor.storage = <<>>

\* C10 witness: after advance_by with an empty frontier a batch was inserted
\* and is held, and cursor_through then failed its first assertion.
C10_Witness ==
    /\ advance_frontier = <<>>
    /\ cursor # NoCursor
    /\ panic = CursorClosedAssert
    /\ map_batches(Spine) # <<>>

\* batch is among the batches map_batches visits in s.
held(s, batch) ==
    \E i \in 1 .. Len(map_batches(s)) : map_batches(s)[i] = batch

\* What C11 states of a call close() on the Spine s0 that builds `batch` and
\* leaves s.
close_as_stated(s0, batch, s) ==
    /\ batch.lower = s0.upper
    /\ batch.upper = s0.upper
    /\ batch.updates = {}
    /\ s.upper = s0.upper

\* What close() does on a Spine s0 whose upper is not empty.
close_contract(s0, batch, s) ==
    /\ batch.lower = s0.upper
    /\ batch.upper = <<>>
    /\ batch.updates = {}
    /\ s.panic = NoPanic
    /\ s.upper = <<>>
    /\ held(s, batch)

\* C11 as stated: close() inserts an empty batch whose lower and upper both
\* equal the Spine's upper, and leaves the Spine's upper unchanged.
C11_CloseAtUpper ==
    panic = NoPanic /\ upper # <<>> =>
        close_as_stated(Spine, closing_batch(Spine), close(Spine))

\* C11 amended: on a Spine whose upper is not empty, close() inserts an empty
\* batch whose lower is the Spine's upper and whose upper is the empty
\* frontier; the Spine holds that batch and its upper becomes empty.
C11_CloseSeals ==
    panic = NoPanic /\ upper # <<>> =>
        close_contract(Spine, closing_batch(Spine), close(Spine))

\* C11 witness: close() has run after an insert: the Spine's upper is empty
\* and the last pending batch is the empty batch from the old upper onwards.
C11_Witness ==
    /\ panic = NoPanic
    /\ upper = <<>>
    /\ inserted # {}
    /\ Len(pending) >= 2
    /\ pending[Len(pending)].upper = <<>>
    /\ pending[Len(pending)].lower = pending[Len(pending) - 1].upper
    /\ pending[Len(pending)].updates = {}

\* Two Spines agree on upper, pending, the layers and the panic.
same_spine(s1, s2) ==
    /\ s1.upper = s2.upper
    /\ s1.pending = s2.pending
    /\ s1.merging = s2.merging
    /\ s1.panic = s2.panic

\* C12: close() is idempotent: from any reachable state, close(); close()
\* leaves the same upper, pending and layers as one close().
C12_CloseIdempotent ==
    panic = NoPanic => same_spine(close(Spine), close(close(Spine)))

\* C12 witness: close() has run on a Spine whose through_frontier is empty, so
\* that its batch went into the layers; a second close() starts here.
C12_Witness ==
    /\ panic = NoPanic
    /\ upper = <<>>
    /\ through_frontier = <<>>
    /\ pending = <<>>
    /\ \E i \in 1 .. Len(map_batches(Spine)) :
          /\ map_batches(Spine)[i].upper = <<>>
          /\ map_batches(Spine)[i].updates = {}

\* s and s0 agree on the layers, pending, upper and both frontiers.
same_structure(s0, s) ==
    /\ s.merging = s0.merging
    /\ s.pending = s0.pending
    /\ s.upper = s0.upper
    /\ s.advance_frontier = s0.advance_frontier
    /\ s.through_frontier = s0.through_frontier

\* C13 as stated: on a Spine in reduced form exert leaves the layers (their
\* number and every slot), pending, upper and both frontiers unchanged.
C13_ExertNoOp ==
    panic = NoPanic /\ reduced(Spine) =>
        \A fuel \in 1 .. MaxEffort : same_structure(Spine, exert(Spine, fuel))

\* What exert does to a Spine s0 in reduced form, tidied being
\* tidy_layers(s0): pending, upper and the frontiers stay; the layers become
\* the tidied layers while those are in reduced form.
exert_reduced_contract(s0, tidied, s) ==
    /\ s.pending = s0.pending
    /\ s.upper = s0.upper
    /\ s.advance_frontier = s0.advance_frontier
    /\ s.through_frontier = s0.through_frontier
    /\ s.panic = NoPanic
    /\ reduced(tidied) => s.merging = tidied.merging
    /\ tidied.merging = s0.merging => s.merging = s0.merging

\* C13 amended: on a Spine in reduced form exert leaves pending, upper and both
\* frontiers unchanged and does to the layers what tidy_layers does (slots
\* that are Vacant or hold no batch are removed from under a top Single); it
\* leaves the layers unchanged when tidy_layers has nothing to remove.
C13_ExertTidiesOnly ==
    panic = NoPanic /\ reduced(Spine) =>
        \A fuel \in 1 .. MaxEffort :
            exert_reduced_contract(Spine, tidy_layers(Spine), exert(Spine, fuel))

\* C13 witness: a Spine in reduced form that holds a batch and whose layers
\* tidy_layers would shorten.
C13_Witness ==
    /\ panic = NoPanic
    /\ reduced(Spine)
    /\ \E i \in 1 .. Len(merging) : state_len(merging[i]) > 0
    /\ tidy_layers(Spine).merging # merging

\* C14: once the inserts have ended, repeated exert calls with positive
\* effort bring the Spine into reduced form, and it stays reduced.
C14_EventuallyReduced == <>[]reduced(Spine)

\* C14 witness: the trace is closed, nothing is pending, and the Spine is in
\* reduced form with every inserted record merged into one batch of at least
\* nine records.
C14_Witness ==
    /\ panic = NoPanic
    /\ upper = <<>>
    /\ pending = <<>>
    /\ reduced(Spine)
    /\ Len(map_batches(Spine)) = 1
    /\ batch_len(map_batches(Spine)[1]) >= 9

\* The layers hold one batch only: a Single at level n with 2^n records,
\* every other slot Vacant, and the layers end at level n.
one_single_at(layers, n) ==
    /\ Len(layers) = n + 1
    /\ is_single(layers[n + 1])
    /\ layers[n + 1].batch.some
    /\ batch_len(layers[n + 1].batch) = Pow2(n)
    /\ \A k \in 1 .. n : is_vacant(layers[k])

\* exert has nothing left to do to the layers.
drained == \A fuel \in 1 .. MaxEffort : exert(Spine, fuel).merging = merging

\* C15: after 2^n single-record batches, each admitted at level 0, and exert
\* until it does nothing more, the layers are one Single at level n holding
\* all 2^n records, with no merge in progress; every state on the way
\* satisfies the invasion invariant.
C15_SinglesMergeToLevelN ==
    panic = NoPanic =>
        /\ \A k \in 1 .. Len(merging) :
              in_progress(merging[k]) => smaller_sum(merging, k - 1) < Pow2(k - 1)
        /\ \A n \in 0 .. MaxN :
              upper = <<Pow2(n)>> /\ drained => one_single_at(merging, n)

\* C15 witness: eight single-record batches were inserted and exert has run
\* until it changes nothing: one Single at level 3 holds the eight records.
C15_Witness ==
    /\ panic = NoPanic
    /\ upper = <<8>>
    /\ drained
    /\ ~last_call_inserted
    /\ one_single_at(merging, 3)

\* The batches a slot holds, absent ones left out.
slot_batches(m) ==
    {b \in (CASE is_single(m) -> {m.batch}
              [] in_progress(m) -> {m.batch1, m.batch2}
              [] is_double(m) -> {m.batch}
              [] OTHER -> {}) : b.some}

\* Some batch of the layers spans both inputs of the merge m: the merge has
\* completed and its result was promoted, and perhaps merged further.
promoted(layers, m) ==
    \E j \in 1 .. Len(layers) : \E b \in slot_batches(layers[j]) :
        /\ dominates(m.batch1.lower, b.lower)
        /\ dominates(b.upper, m.batch2.upper)

\* The merge m goes on at layer k of the layers, with fewer than 2^k records
\* accounted below it.
still_merging(layers, k, m) ==
    /\ k <= Len(layers)
    /\ in_progress(layers[k])
    /\ layers[k].batch1 = m.batch1
    /\ layers[k].batch2 = m.batch2
    /\ smaller_sum(layers, k - 1) < Pow2(k - 1)

\* C16: in every call, a merge in progress at level k either goes on with
\* fewer than 2^k records accounted below it, or has completed and been
\* promoted; no call needs its result (an insert_at meeting its slot, or a
\* completion that fails) while it is in progress.  advance_by with the empty
\* frontier ends every merge by dropping the layers.
C16_MergeCompletesInTime ==
    [][panic = NoPanic =>
          \A k \in 1 .. Len(merging) :
              in_progress(merging[k]) =>
                  /\ panic' \notin {InsertIntoDouble, FailedToComplete}
                  /\ panic' = NoPanic =>
                        \/ still_merging(merging', k, merging[k])
                        \/ promoted(merging', merging[k])
                        \/ advance_frontier' = <<>> /\ merging' = <<>>]_vars

\* C16 witness: the last call admitted a user batch; a merge is in progress,
\* and a layer above it holds a batch of more than four records, the promoted
\* result of earlier merges.
C16_Witness ==
    /\ panic = NoPanic
    /\ user_admits # {}
    /\ \E k \in 1 .. Len(merging) :
          /\ in_progress(merging[k])
          /\ \E j \in k + 1 .. Len(merging) : \E b \in slot_batches(merging[j]) :
                batch_len(b) > 4 /\ b.upper # <<>>

\* A frontier moved from `current` to `new` against the order: some time of
\* `new` is not in the future of any time of `current`.
regressed(current, new) == ~dominates(new, current)

\* C17: no call installs a regressed advance_frontier or through_frontier; a
\* call that asks for one ends in a panic with the frontier as it was.
C17_RegressIsFatal ==
    [][/\ ~regressed(advance_frontier, advance_frontier')
       /\ ~regressed(through_frontier, through_frontier')]_vars

\* The order, the domain and advance_by of the lattice the last call was on.
call_less_equal(t1, t2) ==
    IF advanced.kind = "scalar" THEN less_equal(t1, t2) ELSE product_less_equal(t1, t2)

call_times == IF advanced.kind = "scalar" THEN ScalarTimes ELSE ProductTimes

\* q is in the upward closure of the frontier: q >= some f in frontier.
beyond(frontier, q) == \E i \in 1 .. Len(frontier) : call_less_equal(frontier[i], q)

\* t1 and t2 compare identically to every time in the upward closure.
indistinguishable(t1, t2, frontier) ==
    \A q \in call_times :
        beyond(frontier, q) => (call_less_equal(t1, q) <=> call_less_equal(t2, q))

\* C18: for a non-empty frontier F and every q >= some f in F, t <= q holds
\* iff advance_by(t, F) <= q holds, over scalar and Product times.
C18_Indistinguishable ==
    advanced # NoCall /\ advanced.frontier # <<>> =>
        indistinguishable(advanced.time, advanced.result, advanced.frontier)

\* C18 witness: a Product time was advanced by a frontier of two incomparable
\* times, and moved.
C18_Witness ==
    /\ advanced # NoCall
    /\ advanced.kind = "product"
    /\ Len(advanced.frontier) = 2
    /\ ~product_less_equal(advanced.frontier[1], advanced.frontier[2])
    /\ ~product_less_equal(advanced.frontier[2], advanced.frontier[1])
    /\ advanced.result # advanced.time
    /\ \E q \in ProductTimes :
          beyond(advanced.frontier, q) /\ ~product_less_equal(advanced.time, q)

\* C19: for a non-empty frontier F, advance_by(t, F) >= t, and every time
\* indistinguishable from t in the upward closure of F is <= advance_by(t, F).
C19_LargestIndistinguishable ==
    advanced # NoCall /\ advanced.frontier # <<>> =>
        /\ call_less_equal(advanced.time, advanced.result)
        /\ \A other \in call_times :
              indistinguishable(other, advanced.time, advanced.frontier) =>
                  call_less_equal(other, advanced.result)

\* C19 witness: the call moved the time, and a third time of the domain,
\* neither the time advanced nor the result, is indistinguishable from it.
C19_Witness ==
    /\ advanced # NoCall
    /\ advanced.frontier # <<>>
    /\ advanced.result # advanced.time
    /\ \E other \in call_times :
          /\ other # advanced.time
          /\ other # advanced.result
          /\ indistinguishable(other, advanced.time, advanced.frontier)

\* C20: advance_by(advance_by(t, F), F) = advance_by(t, F), for every time
\* and every frontier, the empty one included.
C20_Idempotent ==
    advanced # NoCall /\ advanced.twice # <<>> =>
        advanced.twice[1] = advanced.result

\* C20 witness: the second call was made on a Product result that the first
\* call had moved.
C20_Witness ==
    /\ advanced # NoCall
    /\ advanced.twice # <<>>
    /\ advanced.result # advanced.time
    /\ advanced.frontier # <<>>
    /\ advanced.kind = "product"

RECURSIVE accumulated(_, _, _, _)
\* The sum of the diffs of (k, v) in the first n updates of the collection at
\* times <= q.
accumulated(collection, n, kv, q) ==
    IF n = 0 THEN 0
    ELSE accumulated(collection, n - 1, kv, q)
         + (IF /\ <<collection[n][1], collection[n][2]>> = kv
               /\ call_less_equal(collection[n][3], q)
            THEN collection[n][4] ELSE 0)

\* C21: a collection and the collection with every time advanced by F
\* accumulate the same diff for every (key, val) at every q >= some f in F.
C21_AdvancePreservesAccumulation ==
    advanced # NoCall =>
        \A q \in call_times :
            beyond(advanced.frontier, q) =>
                \A kv \in {<<advanced.collection[i][1], advanced.collection[i][2]>> :
                              i \in 1 .. Len(advanced.collection)} :
                    accumulated(advanced.collection, Len(advanced.collection), kv, q)
                    = accumulated(advanced.result, Len(advanced.result), kv, q)

\* C21 witness: two updates of one key at different Product times were
\* advanced to the same time by a frontier of two times, and some q beyond
\* the frontier sees a non-zero accumulation.
C21_Witness ==
    /\ advanced # NoCall
    /\ advanced.kind = "product"
    /\ Len(advanced.frontier) = 2
    /\ Len(advanced.collection) = 2
    /\ advanced.collection[1][3] # advanced.collection[2][3]
    /\ advanced.result[1][3] = advanced.result[2][3]
    /\ \E q \in ProductTimes :
          /\ beyond(advanced.frontier, q)
          /\ accumulated(advanced.result, 2, <<0, 0>>, q) # 0

\* C22: for scalar and Product times, join(a, b) = join(b, a),
\* join(a, minimum) = a, meet(a, maximum) = a, and
\* join(a, meet(b, c)) <= meet(join(a, b), join(a, c)).
C22_LatticeLaws ==
    advanced # NoCall =>
        /\ advanced.join_ab = advanced.join_ba
        /\ advanced.join_a_minimum = advanced.a
        /\ advanced.meet_a_maximum = advanced.a
        /\ call_less_equal(advanced.join_meet, advanced.meet_joins)

\* C22 witness: three pairwise incomparable Product times, none the minimum
\* or the maximum, whose join and meet are none of them.
C22_Witness ==
    /\ advanced # NoCall
    /\ advanced.kind = "product"
    /\ ~product_less_equal(advanced.a, advanced.b)
    /\ ~product_less_equal(advanced.b, advanced.a)
    /\ ~product_less_equal(advanced.b, advanced.c)
    /\ ~product_less_equal(advanced.c, advanced.b)
    /\ ~product_less_equal(advanced.a, advanced.c)
    /\ ~product_less_equal(advanced.c, advanced.a)
    /\ advanced.join_ab \notin {advanced.a, advanced.b}
    /\ advanced.join_meet # advanced.a

\* The updates of the two inputs of the merge m that land on (key, val, time)
\* kvt once their times are advanced by the frontier recorded for the merge,
\* each with the number of its batch.
landing(m, kvt) ==
    {x \in ({1} \X m.batch1.updates) \cup ({2} \X m.batch2.updates) :
        /\ x[2][1] = kvt[1]
        /\ x[2][2] = kvt[2]
        /\ lattice_advance_by(x[2][3], m.frontier) = kvt[3]}

RECURSIVE weight_from(_, _)
\* The sum of the diffs of the updates X, by magnitude from d upwards.
weight_from(X, d) ==
    IF \A x \in X : x[2][4] < d /\ x[2][4] > -d THEN 0
    ELSE d * (Cardinality({x \in X : x[2][4] = d})
              - Cardinality({x \in X : x[2][4] = -d}))
         + weight_from(X, d + 1)

landing_weight(m, kvt) == weight_from(landing(m, kvt), 1)

\* batch is the merge of the inputs of m: it covers [batch1.lower,
\* batch2.upper), holds one update per (key, val, advanced time) whose diffs
\* sum to a non-zero value, with that sum, and nothing else.
merge_of(m, batch) ==
    /\ batch.some
    /\ batch.lower = m.batch1.lower
    /\ batch.upper = m.batch2.upper
    /\ \A u \in batch.updates :
          /\ u[4] # 0
          /\ u[4] = landing_weight(m, <<u[1], u[2], u[3]>>)
    /\ \A u \in m.batch1.updates \cup m.batch2.updates :
          LET kvt == <<u[1], u[2], lattice_advance_by(u[3], m.frontier)>>
          IN  landing_weight(m, kvt) # 0 =>
                  <<kvt[1], kvt[2], kvt[3], landing_weight(m, kvt)>> \in batch.updates

\* C23: completing a merge the spine has in progress yields the merge of its
\* two inputs under the compaction frontier recorded when the merge began.
C23_MergeCorrect ==
    panic = NoPanic =>
        \A k \in 1 .. Len(merging) :
            in_progress(merging[k]) =>
                /\ variant_complete(merging[k]).panic = NoPanic
                /\ merge_of(merging[k], variant_complete(merging[k]).batch)

\* C23 witness: a merge begun under a frontier other than the minimum holds
\* updates at earlier times whose diffs cancel once advanced: its result has
\* fewer updates than its inputs.
C23_Witness ==
    /\ panic = NoPanic
    /\ \E k \in 1 .. Len(merging) :
          /\ in_progress(merging[k])
          /\ merging[k].frontier # <<minimum>>
          /\ merging[k].frontier # advance_frontier
          /\ batch_len(merging[k].batch1) > 0
          /\ batch_len(merging[k].batch2) > 0
          /\ batch_len(variant_complete(merging[k]).batch) = 0

\* The accumulated weight of the key of e in everything the arrangement was
\* given, at times <= the time of e.
arranged_count(e) ==
    SumDiffs({u \in inserted :
                u[1] = <<key_selector(e.prefix), e.val>> /\ less_equal(u[3], e.time)})

beyond_frontier(v) ==
    {e \in v.stash \cup v.input1.queue : frontier_less_equal(v.input2.frontier, e.time)}

\* The extensions a step matches against the trace.
matched == validator'.processed \ validator.processed

\* C25: under any interleaving of extension and batch arrivals, a step of the
\* operator matches an extension at t against the trace only when the frontier
\* of input2 is no longer <= t, every extension sent is either waiting or was
\* matched, and matched exactly once, and the extensions at times the frontier
\* has not passed stay stashed.
C25_StashDiscipline ==
    [][validator # NoOperator /\ validator' # NoOperator /\ panic' = NoPanic =>
        /\ \A e \in matched : ~frontier_less_equal(validator.input2.frontier, e.time)
        /\ matched \subseteq validator.stash \cup validator.input1.queue
        /\ validator'.answers = Cardinality(validator'.processed)
        /\ validator'.processed \cap (validator'.stash \cup validator'.input1.queue) = {}
        /\ validator'.sent = validator'.processed \cup validator'.stash
                                \cup validator'.input1.queue
        /\ beyond_frontier(validator)
              \subseteq validator'.stash \cup validator'.input1.queue]_vars

\* One extension was matched while another, at a time the frontier of input2
\* has not passed, is still stashed, with a batch waiting on input2.
C25_Witness ==
    /\ validator # NoOperator
    /\ panic = NoPanic
    /\ validator.processed # {}
    /\ validator.stash # {}
    /\ validator.stash \subseteq beyond_frontier(validator)
    /\ validator.input2.queue # <<>>

emitted(abc) ==
    weight({u \in triangles.changes1 : u.data = abc})
    + weight({u \in triangles.changes2 : u.data = abc})
    + weight({u \in triangles.changes3 : u.data = abc})

\* The multiplicity of the edge e once all updates are in.
edge_weight(e) == weight({u \in triangles.edges : u.data = e})

\* Q(a,b,c) := E1(a,b), E2(b,c), E3(a,c) on the final graph.
query(abc) ==
    IF abc[1] # abc[2] /\ abc[2] # abc[3] /\ abc[1] # abc[3]
    THEN edge_weight(<<abc[1], abc[2]>>) * edge_weight(<<abc[2], abc[3]>>)
            * edge_weight(<<abc[1], abc[3]>>)
    ELSE 0

Triples == Nodes \X Nodes \X Nodes

RECURSIVE total_emitted(_)
\* The weight the streams give the triples in S together.
total_emitted(S) ==
    IF S = {} THEN 0
    ELSE LET x == CHOOSE y \in S : TRUE IN emitted(x) + total_emitted(S \ {x})

\* The triangles of the final graph: three nodes, each two of them joined by
\* an edge in one direction or the other.
joined(x, y) == edge_weight(<<x, y>>) # 0 \/ edge_weight(<<y, x>>) # 0
triangle_count ==
    Cardinality({abc \in Triples :
        /\ abc[1] < abc[2] /\ abc[2] < abc[3]
        /\ joined(abc[1], abc[2]) /\ joined(abc[2], abc[3]) /\ joined(abc[1], abc[3])})

\* The final graph holds every edge in both directions.
symmetric == \A e \in EdgeSet : edge_weight(e) = edge_weight(<<e[2], e[1]>>)

\* C27 as stated: the three streams, summed over all times, hold 6 times the
\* number of triangles of E.
C27_SixPerTriangle ==
    triangles # NoQuery => total_emitted(Triples) = 6 * triangle_count

\* C27: the three streams, summed over all times, hold every (a,b,c) with
\* E(a,b), E(b,c), E(a,c) exactly once, however the updates are spread over the
\* times; that is 6 per triangle when E holds every edge in both directions.
C27_DeltaQueryComplete ==
    triangles # NoQuery =>
        /\ \A abc \in Triples : emitted(abc) = query(abc)
        /\ symmetric => total_emitted(Triples) = 6 * triangle_count

\* The edges of a triangle arrived together, in both directions, and the
\* streams hold its six triples once each.
C27_Witness ==
    /\ triangles # NoQuery
    /\ symmetric
    /\ triangle_count = 1
    /\ \A u \in triangles.edges : u.time = 1
    /\ \A abc \in {x \in Triples : query(x) = 1} : emitted(abc) = 1
    /\ total_emitted(Triples) = 6

\* C28: the AltNeu order is (t1,r1) <= (t2,r2) iff t1 <= t2 and (t1 # t2 or
\* r1 = alt or r2 = neu); it is reflexive, antisymmetric and transitive, and
\* alt(t) is strictly below neu(t) at every t.
C28_AltNeuPartialOrder ==
    advanced # NoCall /\ advanced.kind = "altneu" =>
        /\ advanced.ab <=>
              /\ less_equal(advanced.a[1], advanced.b[1])
              /\ \/ advanced.a[1] # advanced.b[1]
                 \/ advanced.a[2] = "alt"
                 \/ advanced.b[2] = "neu"
        /\ advanced.aa
        /\ advanced.ab /\ advanced.ba => advanced.a = advanced.b
        /\ advanced.ab /\ advanced.bc => advanced.ac
        /\ advanced.alt_neu /\ ~advanced.neu_alt

\* Three different times in a chain through the alt and the neu of one time.
C28_Witness ==
    /\ advanced # NoCall
    /\ advanced.kind = "altneu"
    /\ advanced.a[1] = advanced.b[1]
    /\ advanced.a # advanced.b
    /\ advanced.b # advanced.c
    /\ advanced.ab /\ advanced.bc /\ advanced.ac

\* The states of a Variable.
Open(v) == v.feedback
Closed(v) == ~v.feedback

\* C29: a Variable created by from is Open; set moves it to Closed, where it
\* stays; a Variable dropped while Open panics with "unset new_variable", and
\* the drop after set does not panic.
C29_VariableLifecycle ==
    [][/\ Len(new_variable') > Len(new_variable) =>
            Open(new_variable'[Len(new_variable')]) /\ panic' = NoPanic
       /\ \A i \in 1 .. Len(new_variable) :
            /\ Closed(new_variable[i]) => new_variable'[i] = new_variable[i]
            /\ Open(new_variable[i]) /\ Closed(new_variable'[i]) =>
                    new_variable'[i].dropped /\ panic' = NoPanic
            /\ Open(new_variable[i]) /\ new_variable'[i].dropped =>
                    (Open(new_variable'[i]) <=> panic' = UnsetVariable)
            /\ \A result \in Streams :
                    Set(i, result) =>
                        /\ Closed(new_variable'[i])
                        /\ new_variable'[i].loop = result
                        /\ panic' = NoPanic
            /\ Drop(i) /\ Open(new_variable[i]) => panic' = UnsetVariable]_vars

\* One Variable was set and dropped without a panic, another was dropped
\* while Open and panicked.
C29_Witness ==
    /\ \E i \in 1 .. Len(new_variable) :
          Closed(new_variable[i]) /\ new_variable[i].dropped
    /\ \E i \in 1 .. Len(new_variable) :
          Open(new_variable[i]) /\ new_variable[i].dropped
    /\ panic = UnsetVariable

\* The records the merge m has yet to touch.
deficit(m) == state_len(m) - m.done

\* C30: introduce_batch at level L works with fuel (8 << L) * effort, effort
\* being the configured multiplier, or 1 when that is 0; every merge in
\* progress above level L is given that amount in full: it touches its whole
\* deficit, or exactly that many records.
C30_FuelPerMerge ==
    [][/\ effort' \in {IF m = 0 THEN 1 ELSE m : m \in 0 .. MaxFuelMultiplier}
       /\ panic' = NoPanic /\ Len(admits') = 1 /\ admits'[1].batch.some =>
            \A k \in (admits'[1].level + 2) .. Len(merging) :
                in_progress(merging[k]) =>
                    IF deficit(merging[k]) >= (8 * Pow2(admits'[1].level)) * effort
                    THEN /\ in_progress(merging'[k])
                         /\ merging'[k].batch1 = merging[k].batch1
                         /\ merging'[k].done
                              = merging[k].done + (8 * Pow2(admits'[1].level)) * effort
                    ELSE ~still_merging(merging', k, merging[k])]_vars

\* Two merges are in progress, the lower with records yet to touch and the
\* upper with more than the fuel of a level-0 batch less those.
C30_Witness ==
    /\ panic = NoPanic
    /\ \E j \in 1 .. Len(merging), k \in 1 .. Len(merging) :
          /\ j < k
          /\ in_progress(merging[j])
          /\ in_progress(merging[k])
          /\ deficit(merging[j]) > 0
          /\ merging[k].done > 0
          /\ deficit(merging[k]) >= 8 * effort

\* C31: for every merge in progress, a work call completes it (calls the
\* merger's done) exactly when the call leaves fuel strictly positive, which
\* is after the inputs are exhausted; a call whose fuel is used up keeps the
\* slot InProgress even when it touched the last record, and a further call
\* with positive fuel completes it; complete never fails.
C31_DoneAfterPositiveFuel ==
    /\ panic # FailedToComplete
    /\ \A k \in 1 .. Len(merging) :
          in_progress(merging[k]) =>
              /\ \A fuel \in 0 .. deficit(merging[k]) :
                    /\ in_progress(variant_work(merging[k], fuel).state)
                    /\ variant_work(merging[k], fuel).state.done = merging[k].done + fuel
                    /\ variant_work(merging[k], fuel).fuel = 0
                    /\ is_complete(
                          variant_work(variant_work(merging[k], fuel).state,
                                       deficit(merging[k]) - fuel + 1).state)
              /\ is_complete(variant_work(merging[k], deficit(merging[k]) + 1).state)
              /\ variant_work(merging[k], deficit(merging[k]) + 1).fuel = 1
              /\ variant_complete(merging[k]).panic = NoPanic

\* A merge in progress has touched all its records and is not complete.
C31_Witness ==
    /\ panic = NoPanic
    /\ \E k \in 1 .. Len(merging) :
          /\ in_progress(merging[k])
          /\ merging[k].done > 0
          /\ deficit(merging[k]) = 0

\* The Spine as introduce_batch hands it to roll_up(index), and as roll_up
\* returns it.
before_roll_up(index) ==
    [apply_fuel(Spine, introduce_fuel(index, effort)) EXCEPT
        !.merging = grow(@, index + 1), !.merged = None]
after_roll_up(index) == roll_up(before_roll_up(index), index)

\* The batches of the slots layers[0 .. n), oldest first.
batches_below(layers, n) == map_batches_layers(SubSeq(layers, 1, n), n)

RECURSIVE seq_weight(_, _)
\* The sum of the diffs of the first n batches of a sequence.
seq_weight(batches, n) ==
    IF n = 0 THEN 0 ELSE seq_weight(batches, n - 1) + SumDiffs(batches[n].updates)

\* The batch that arrived last at a slot.
arrived(m) ==
    CASE is_single(m) -> m.batch
      [] in_progress(m) -> m.batch2
      [] is_double(m) -> m.batch
      [] OTHER -> None

\* The batch b is the fold of a chain of batches: it covers their interval and
\* holds their weight.
fold_of(b, chain) ==
    IF chain = <<>> THEN ~b.some
    ELSE /\ b.some
         /\ b.lower = chain[1].lower
         /\ b.upper = chain[Len(chain)].upper
         /\ SumDiffs(b.updates) = seq_weight(chain, Len(chain))

\* roll_up(index) took `pre` to `post`, folding the slots below `top`
\* (counted from 1) into the batch arriving there.
rolled_up(pre, post, index, top) ==
    /\ ~panicked(post)
    /\ \A i \in 1 .. index : is_vacant(post.merging[i])
    /\ ~is_double(post.merging[index + 1])
    /\ IF \A i \in 1 .. index : is_vacant(pre.merging[i])
       THEN post.merging = pre.merging
       ELSE /\ IF batches_below(pre.merging, top - 1) = <<>>
               THEN batches_below(post.merging, Len(post.merging))
                        = batches_below(pre.merging, Len(pre.merging))
               ELSE /\ fold_of(arrived(post.merging[top]),
                               batches_below(pre.merging, top - 1))
                    /\ is_vacant(pre.merging[top]) => is_single(post.merging[top])
                    /\ is_single(pre.merging[top]) /\ pre.merging[top].batch.some =>
                          /\ in_progress(post.merging[top])
                          /\ post.merging[top].batch1 = pre.merging[top].batch
            /\ \A k \in (top + 1) .. Len(pre.merging) :
                  k <= Len(post.merging) /\ post.merging[k] = pre.merging[k]

\* C32: when introduce_batch calls roll_up(level), whatever the level, the
\* call returns with every slot below level Vacant and slot level not Double;
\* the batches that were below level are folded, in chain order, into one
\* batch placed at level, or, when slot level was occupied, merged with its
\* batch at once and the result moved to level + 1.
C32_RollUp ==
    panic = NoPanic =>
        \A index \in 0 .. Len(merging) :
            rolled_up(before_roll_up(index), after_roll_up(index), index,
                      IF is_vacant(before_roll_up(index).merging[index + 1])
                      THEN index + 1 ELSE index + 2)

\* A slot holds a batch below a Single, with a Single in the slot above it:
\* roll_up to the level of the first Single folds the two and starts the
\* merge of the result with the batch of the slot above.
C32_Witness ==
    /\ panic = NoPanic
    /\ \E index \in 1 .. (Len(merging) - 2) :
          /\ is_single(merging[index + 1]) /\ merging[index + 1].batch.some
          /\ is_single(merging[index + 2]) /\ merging[index + 2].batch.some
          /\ \E i \in 1 .. index : is_single(merging[i]) /\ merging[i].batch.some
          /\ in_progress(after_roll_up(index).merging[index + 2])

\* The Spine as introduce_batch hands it to tidy_layers when exert introduces
\* an empty batch at batch_index.
before_tidy(batch_index) ==
    place_batch(after_roll_up(batch_index), None, batch_index)

\* The natural level of the top batch of the layers.
appropriate_level(layers) == level_of(state_len(layers[Len(layers)]))

RECURSIVE absorbed(_, _)
\* The layers once tidy_layers has removed the Vacant and structurally empty
\* slots it finds under the top batch.
absorbed(layers, level) ==
    LET length == Len(layers)
    IN  IF level < length - 1
           /\ (\/ is_vacant(layers[length - 1])
               \/ is_single(layers[length - 1]) /\ ~layers[length - 1].batch.some)
        THEN absorbed(remove(layers, length - 2), level)
        ELSE layers

\* tidy_layers took a Spine whose layers, after absorption, were `layers` with
\* the top batch of natural level `level`, to `post`.
tidied(layers, level, post) ==
    LET length == Len(layers)
        below == layers[length - 1]
        moved == /\ Len(post.merging) = length - 1
                 /\ in_progress(post.merging[length - 1])
                 /\ post.merging[length - 1].batch1 = layers[length].batch
                 /\ post.merging[length - 1].batch2 = below.batch
                 /\ SubSeq(post.merging, 1, length - 2) = SubSeq(layers, 1, length - 2)
    IN  /\ ~panicked(post)
        /\ Len(post.merging) - 1 >= level
        /\ IF level < length - 1 /\ is_single(below)
           THEN /\ moved <=> smaller_sum(layers, length - 2) <= Pow2(length) \div 8
                /\ ~moved => post.merging = layers
           ELSE post.merging = layers

\* The top of the layers is a Single holding a batch that lies above its
\* natural level.
top_above_level(layers) ==
    /\ layers # <<>>
    /\ is_single(layers[Len(layers)])
    /\ layers[Len(layers)].batch.some
    /\ appropriate_level(layers) < Len(layers) - 1

drawn_down(s) ==
    /\ top_above_level(s.merging)
    /\ appropriate_level(s.merging)
          < Len(absorbed(s.merging, appropriate_level(s.merging))) - 1
    /\ smaller_sum(s.merging,
                   Len(absorbed(s.merging, appropriate_level(s.merging))) - 2) > 0
    /\ is_single(absorbed(s.merging, appropriate_level(s.merging))
                    [Len(absorbed(s.merging, appropriate_level(s.merging))) - 1])
    /\ Len(tidy_layers(s).merging)
          < Len(absorbed(s.merging, appropriate_level(s.merging)))

C34_LayerSizes ==
    panic = NoPanic =>
        \A k \in 1 .. Len(merging) : \A b \in slot_batches(merging[k]) :
            batch_len(b) <= Pow2(k - 1)

\* A layer above layer 0 is full: it holds a batch of exactly 2^i records;
\* and another layer holds a merge in progress.
C34_Witness ==
    /\ panic = NoPanic
    /\ \E k \in 2 .. Len(merging) : \E b \in slot_batches(merging[k]) :
          batch_len(b) = Pow2(k - 1)
    /\ \E k \in 1 .. Len(merging) : in_progress(merging[k])


\* The diffs the batches of s hold for key k, whatever the time.
held_weight(s, k) == storage_sum(map_batches(s), 1, k, 0, maximum)

has_double(layers) == \E i \in 1 .. Len(layers) : is_double(layers[i])

\* No batch was introduced between s0 and s, and every merge that s0 had in
\* progress with at least `fuel` records left is `fuel` records further in s.
fuel_applied(s0, s, fuel) ==
    /\ s.admits = s0.admits
    /\ \A k \in 1 .. Len(s0.merging) :
          in_progress(s0.merging[k]) /\ deficit(s0.merging[k]) >= fuel =>
              s.merging[k] = [s0.merging[k] EXCEPT !.done = @ + fuel]
    /\ \A k \in 1 .. Len(s0.merging) :
          in_progress(s0.merging[k]) /\ deficit(s0.merging[k]) < fuel =>
              ~(in_progress(s.merging[k]) /\ s.merging[k].batch1 = s0.merging[k].batch1)

\* One batch was introduced between s0 and s: a structurally empty one, at
\* level ceil(log2(fuel)).
empty_introduced(s0, s, fuel) ==
    /\ Len(s.admits) = Len(s0.admits) + 1
    /\ ~s.admits[Len(s.admits)].batch.some
    /\ Pow2(s.admits[Len(s.admits)].level) >= fuel
    /\ s.admits[Len(s.admits)].level > 0 =>
          Pow2(s.admits[Len(s.admits)].level - 1) < fuel

\* exert took s0 to s and kept the updates of the trace.
updates_kept(s0, s) ==
    /\ s.panic = NoPanic
    /\ \A k \in 0 .. 3 : held_weight(s, k) = held_weight(s0, k)

was_in_progress(layers, m) ==
    \E j \in 1 .. Len(layers) :
        /\ in_progress(layers[j])
        /\ layers[j].batch1 = m.batch1
        /\ layers[j].batch2 = m.batch2
        /\ layers[j].frontier = m.frontier

\* Every batch the Spine holds over the interval of an admitted batch is
\* that batch, its times as they were inserted.
unmerged_keep_times ==
    \A i \in 1 .. Len(admits) : \A j \in 1 .. Len(map_batches(Spine)) :
        /\ admits[i].batch.some
        /\ map_batches(Spine)[j].lower = admits[i].batch.lower
        /\ map_batches(Spine)[j].upper = admits[i].batch.upper
        => map_batches(Spine)[j] = admits[i].batch

\* A step begins merges under the advance_frontier of its moment only, and a
\* step that changes advance_frontier leaves the layers and pending as they
\* are, or clears them when the new frontier is empty.
merges_keep_frontier ==
    /\ panic' = NoPanic =>
          \A k \in 1 .. Len(merging') :
              in_progress(merging'[k]) =>
                  \/ was_in_progress(merging, merging'[k])
                  \/ /\ merging'[k].frontier = advance_frontier
                     /\ advance_frontier' = advance_frontier
    /\ advance_frontier' # advance_frontier =>
          \/ merging' = merging /\ pending' = pending
          \/ advance_frontier' = <<>> /\ merging' = <<>> /\ pending' = <<>>

\* C36: a merge compacts against the advance_frontier current when it was
\* started: advance_by does not change the frontier of a merge in progress,
\* whose result is the merge under the recorded frontier, and a batch that
\* was not merged keeps the times it was inserted with.
C36_FrontierAtStart ==
    /\ [][merges_keep_frontier]_vars
    /\ [](panic = NoPanic =>
            /\ unmerged_keep_times
            /\ \A k \in 1 .. Len(merging) :
                  in_progress(merging[k]) =>
                      variant_complete(merging[k]).batch
                          = merger_done(merging[k].batch1, merging[k].batch2,
                                        merging[k].frontier))

\* A merge begun under the minimum frontier is in progress after advance_by
\* moved advance_frontier on: completed under the later frontier it would give
\* another batch; and a Single holds updates at times before advance_frontier.
C36_Witness ==
    /\ panic = NoPanic
    /\ advance_frontier # <<>>
    /\ \E k \in 1 .. Len(merging) :
          /\ in_progress(merging[k])
          /\ merging[k].frontier # advance_frontier
          /\ merger_done(merging[k].batch1, merging[k].batch2, advance_frontier)
                # variant_complete(merging[k]).batch
    /\ \E k \in 1 .. Len(merging) :
          /\ is_single(merging[k]) /\ merging[k].batch.some
          /\ \E u \in merging[k].batch.updates :
                lattice_advance_by(u[3], advance_frontier) # u[3]


is_some(a) == a.batch.some

\* The batches the last call moved from pending to the layers, in the order
\* it did.
admitted == SelectSeq(admits, is_some)

\* A call on the Spine admits a front part of the queue (pending, with the
\* batch the call inserted, if any, at its back) in queue order, every
\* admitted batch having its upper dominated by through_frontier, and leaves
\* the rest pending.
admits_in_order ==
    cursor = NoCursor /\ cursor' = NoCursor /\ panic' = NoPanic =>
        /\ \A i \in 1 .. Len(admitted') :
              /\ dominates(through_frontier', admitted'[i].batch.upper)
              /\ admitted'[i].level = level_of(batch_len(admitted'[i].batch))
        /\ \/ pending' = <<>> /\ advance_frontier' = <<>> /\ admitted' = <<>>
           \/ LET queue == [i \in 1 .. Len(admitted') |-> admitted'[i].batch]
                              \o pending'
              IN  \/ queue = pending
                  \/ /\ Len(queue) = Len(pending) + 1
                     /\ SubSeq(queue, 1, Len(pending)) = pending
                     /\ queue[Len(queue)].lower = upper
                     /\ queue[Len(queue)].upper = upper'

\* C37: pending batches are admitted strictly in insertion order: each call
\* admits a front part of pending, in order, and the batch left at the front
\* of pending is one whose upper through_frontier does not dominate; every
\* batch of the layers lies before every pending batch.
C37_AdmissionOrder ==
    /\ [][admits_in_order]_vars
    /\ [](panic = NoPanic =>
            /\ \A i \in 1 .. Len(pending) :
                  \A j \in 1 .. Len(batches_below(merging, Len(merging))) :
                      dominates(pending[i].lower,
                                batches_below(merging, Len(merging))[j].upper)
            /\ pending # <<>> => ~dominates(through_frontier, pending[1].upper))

\* The last call admitted two batches, one after the other, and left one
\* pending behind a through_frontier that holds it back.
C37_Witness ==
    /\ panic = NoPanic
    /\ Len(admitted) >= 2
    /\ Len(pending) >= 1
    /\ admitted[1].batch.upper = admitted[2].batch.lower
    /\ admitted[Len(admitted)].batch.upper = pending[1].lower


\* C38: insert fails its first assertion on every batch whose lower equals
\* its upper, with upper, pending and the layers as they were, whether or not
\* the batch starts at the Spine's upper; no batch the Spine holds has an
\* empty interval.
C38_RejectsEmptyInterval ==
    /\ [][panic' = InsertEmptyAssert =>
            /\ upper' = upper
            /\ pending' = pending
            /\ merging' = merging]_vars
    /\ [](panic = NoPanic =>
            /\ \A batch \in UserBatches :
                  batch.lower = batch.upper =>
                      insert(Spine, batch) = [Spine EXCEPT !.panic = InsertEmptyAssert]
            /\ \A i \in 1 .. Len(map_batches(Spine)) :
                  map_batches(Spine)[i].lower # map_batches(Spine)[i].upper)

\* insert was called with an empty-interval batch on a Spine that holds
\* batches in the layers and in pending, with upper where such a batch would
\* start: the call failed and the Spine is as it was.
C38_Witness ==
    /\ panic = InsertEmptyAssert
    /\ merging # <<>>
    /\ pending # <<>>
    /\ Some(upper, upper, {}) \in UserBatches


\* The interval the batches of s describe: the lower of the first and the
\* upper of the last that map_batches visits.
described(s) ==
    IF map_batches(s) = <<>> THEN <<>>
    ELSE <<map_batches(s)[1].lower, map_batches(s)[Len(map_batches(s))].upper>>

\* A maintenance call took s0 to s: upper, pending and both frontiers are as
\* they were, and the batches are a chain over the same interval.
maintained(s0, s) ==
    /\ s.panic = NoPanic
    /\ s.upper = s0.upper
    /\ s.pending = s0.pending
    /\ s.advance_frontier = s0.advance_frontier
    /\ s.through_frontier = s0.through_frontier
    /\ chained(map_batches(s))
    /\ described(s) = described(s0)

\* While the Spine holds batches the lower end of the interval they describe
\* stays where it is; it is set by the batch inserted into a Spine that
\* holds none.
lower_end_stays ==
    panic' = NoPanic /\ map_batches(Spine)' # <<>> =>
        described(Spine)'[1] = IF map_batches(Spine) # <<>>
                               THEN described(Spine)[1]
                               ELSE upper

\* C39: exert, apply_fuel, roll_up and tidy_layers leave upper, pending,
\* advance_frontier and through_frontier unchanged and the live batches a
\* chain over the interval they covered before; that interval runs from the
\* lower of the first batch inserted (since advance_by last cleared the
\* Spine) to the Spine's upper.
C39_MaintenanceKeepsInterval ==
    /\ [][lower_end_stays]_vars
    /\ [](panic = NoPanic =>
            /\ \A fuel \in 1 .. MaxEffort : maintained(Spine, exert(Spine, fuel))
            /\ maintained(Spine, tidy_layers(Spine))
            /\ \A index \in 0 .. Len(merging) :
                  /\ maintained(Spine, apply_fuel(Spine, introduce_fuel(index, effort)))
                  /\ maintained(Spine, after_roll_up(index))
                  /\ maintained(Spine, tidy_layers(before_tidy(index)))
            /\ map_batches(Spine) # <<>> => described(Spine)[2] = upper)

\* Batches are held in the layers, one of them in a merge, and in pending,
\* and exert changes the layers.
C39_Witness ==
    /\ panic = NoPanic
    /\ pending # <<>>
    /\ \E k \in 1 .. Len(merging) : in_progress(merging[k])
    /\ Len(batches_below(merging, Len(merging))) >= 3
    /\ exert(Spine, 1).merging # merging


\* The times whose notifications, and those of every earlier time, have been
\* delivered: both frontiers have passed them and nothing waits at or before
\* them.
completed(time) ==
    /\ time \in cogroup.closed
    /\ \A s \in CoTimes :
          product_less_equal(s, time) =>
              /\ s \notin cogroup.notify
              /\ \A u \in cogroup.inputs1 \cup cogroup.inputs2 : u[3] # s

\* What the logic gives for the inputs of the key accumulated up to time.
expected_output(key, time) ==
    IF get_collection_using(cogroup.source1, key, time) # {}
       \/ get_collection_using(cogroup.source2, key, time) # {}
    THEN logic(cogroup.logic,
               get_collection_using(cogroup.source1, key, time),
               get_collection_using(cogroup.source2, key, time))
    ELSE {}

\* C40: for each key and each completed time the output accumulated up to
\* that time is the logic applied to the inputs accumulated up to that time,
\* and no difference of weight zero is sent.
C40_CoGroupOutput ==
    cogroup # NoCoGroup =>
        /\ \A u \in cogroup.output : u[4] # 0
        /\ \A key \in CoKeys : \A time \in CoTimes :
              completed(time) =>
                  get_collection_using(cogroup.output, key, time)
                      = expected_output(key, time)

=============================================================================
